---- MODULE Spec2Model ----
(***************************************************************************)
(* Gemini-pc-control: the command parser, the command lifecycle and the    *)
(* execution engine (gemini_pc_control/system/command_executor.py,         *)
(* gemini_pc_control/models/command.py), the request pipeline of           *)
(* Application.process_command (gemini_pc_control/main.py), the main       *)
(* window (gemini_pc_control/ui/main_window.py), the main loop             *)
(* of the alpha script ("Gemini pc control alpha v0.001.py"), and the      *)
(* context store with its file (gemini_pc_control/ai/context_manager.py).  *)
(*                                                                         *)
(* Text is modelled by its ';'-separated fragments, each fragment by the   *)
(* class of strings that takes the same branch of _parse_single_command.   *)
(***************************************************************************)
EXTENDS Naturals, Integers, Sequences, FiniteSets, TLC

(***************************************************************************)
(* Bounds of the model.                                                    *)
(***************************************************************************)
\* most ';'-separated fragments of a text response
MaxFrags == 3
\* most function calls of a function-call response
MaxCalls == 2
\* most execute_command calls on one command
MaxRuns == 2
\* most ';'-separated fragments of a text the collaborator returns to a
\* pipeline
MaxPipelineFrags == 2
\* most add_entry calls on one ContextWindow
MaxAdds == 3
\* most advances of the wall clock in one behaviour
MaxTicks == 3
\* largest max_entries a ContextWindow is configured with
MaxMaxEntries == 2
\* most inputs the main window is sent in one behaviour
MaxSends == 2
\* the plugin directories with a valid manifest, and the dependencies their
\* plugins declare in all
MaxPlugins == 3
MaxEdges == 3

(***************************************************************************)
(* models/command.py: CommandType, CommandStatus.                          *)
(***************************************************************************)
MOUSE_MOVE == "MOUSE_MOVE"
MOUSE_CLICK == "MOUSE_CLICK"
KEYBOARD_TYPE == "KEYBOARD_TYPE"
KEYBOARD_HOTKEY == "KEYBOARD_HOTKEY"
START_PROCESS == "START_PROCESS"
PRINT_OUTPUT == "PRINT_OUTPUT"
COMPOSITE == "COMPOSITE"
UNKNOWN == "UNKNOWN"
CommandType ==
    {MOUSE_MOVE, MOUSE_CLICK, KEYBOARD_TYPE, KEYBOARD_HOTKEY, START_PROCESS,
     PRINT_OUTPUT, COMPOSITE, UNKNOWN}

PENDING == "PENDING"
EXECUTING == "EXECUTING"
COMPLETED == "COMPLETED"
FAILED == "FAILED"
CANCELED == "CANCELED"
CommandStatus == {PENDING, EXECUTING, COMPLETED, FAILED, CANCELED}

\* Python's None, for an optional string
None == "None"
\* Python's None, where a Command is expected
NoCommand == [type |-> None]
\* an unset datetime (executed_at, completed_at); set ones are clock values >= 1
NoTime == 0

(***************************************************************************)
(* Command(...) as the parser constructs it: status defaults to PENDING,   *)
(* executed_at and completed_at to None, sub_commands to [].  dataEmpty    *)
(* tells whether the payload the executor reads (text, keys, command) is   *)
(* empty.                                                                  *)
(***************************************************************************)
NewCommand(type, status, error, dataEmpty) ==
    [type |-> type, status |-> status, error_message |-> error,
     executed_at |-> NoTime, completed_at |-> NoTime,
     dataEmpty |-> dataEmpty, sub_commands |-> << >>]

(***************************************************************************)
(* Command.update_status.                                                  *)
(***************************************************************************)
\* (the variant: the timestamps are assigned on every transition)
UpdateStatusMutant(c, status, error, now) ==
    [c EXCEPT
        !.status = status,
        !.executed_at = IF status = EXECUTING THEN now ELSE @,
        !.completed_at = IF status = COMPLETED THEN now ELSE @,
        !.error_message = IF status = FAILED THEN error ELSE @]
UpdateStatus(c, status, error, now) ==
    [c EXCEPT
        !.status = status,
        !.executed_at =
            IF status = EXECUTING /\ c.executed_at = NoTime THEN now ELSE @,
        !.completed_at =
            IF status = COMPLETED /\ c.completed_at = NoTime THEN now ELSE @,
        !.error_message = IF status = FAILED THEN error ELSE @]

(***************************************************************************)
(* Text responses.  A fragment class per branch of _parse_single_command:  *)
(*   moveTo        pyautogui.moveTo(50, 100, duration=0.1)                 *)
(*   moveToBad     starts with pyautogui.moveTo, the regex does not match  *)
(*   click         starts with pyautogui.click                             *)
(*   typewrite     pyautogui.typewrite("hello")                            *)
(*   typewriteBad  starts with pyautogui.typewrite, no match               *)
(*   hotkey        pyautogui.hotkey('win', '5')                            *)
(*   hotkeyBad     starts with pyautogui.hotkey, no match                  *)
(*   start         start "C:/x.exe"                                        *)
(*   print         print("I see a desktop")                                *)
(*   printBad      starts with print(, no match: print('x')                *)
(*   printErr      starts with print('An error occurred                    *)
(*   sentinel      An error occurred, retrying...                          *)
(*   sentinelMore  starts with the sentinel, and goes on                   *)
(*   anError       starts with "An error", not with the sentinel           *)
(*   junk          any other non-empty text                                *)
(*   empty         the empty or all-blank fragment                         *)
(***************************************************************************)
SENTINEL == "sentinel"
PRINT_ERR == "printErr"
EMPTY == "empty"
Fragment ==
    {"moveTo", "moveToBad", "click", "typewrite", "typewriteBad", "hotkey",
     "hotkeyBad", "start", "print", "printBad", PRINT_ERR, SENTINEL,
     "sentinelMore", "anError", "junk", EMPTY}

\* raw_text.split(';'): one fragment more than the text has ';'
Texts == UNION {[1..n -> Fragment] : n \in 1..MaxFrags}

(***************************************************************************)
(* CommandParser._parse_single_command: the command of one fragment, or    *)
(* None.                                                                   *)
(***************************************************************************)
ParseSingleCommand(frag) ==
    CASE frag = "moveTo" -> NewCommand(MOUSE_MOVE, PENDING, None, FALSE)
      [] frag = "click" -> NewCommand(MOUSE_CLICK, PENDING, None, FALSE)
      [] frag = "typewrite" -> NewCommand(KEYBOARD_TYPE, PENDING, None, FALSE)
      [] frag = "hotkey" -> NewCommand(KEYBOARD_HOTKEY, PENDING, None, FALSE)
      [] frag = "start" -> NewCommand(START_PROCESS, PENDING, None, FALSE)
      [] frag = "print" -> NewCommand(PRINT_OUTPUT, PENDING, None, FALSE)
      [] OTHER -> NoCommand

\* the special error response of parse_text_response
IsErrorResponseText(text) ==
    \/ Len(text) = 1 /\ text[1] = SENTINEL
    \/ text[1] = PRINT_ERR

RECURSIVE ParseSubCommands(_)
ParseSubCommands(text) ==
    IF text = << >> THEN << >>
    ELSE LET sub == IF Head(text) = EMPTY THEN NoCommand
                    ELSE ParseSingleCommand(Head(text))
         IN  IF sub = NoCommand THEN ParseSubCommands(Tail(text))
             ELSE << sub >> \o ParseSubCommands(Tail(text))

(***************************************************************************)
(* CommandParser.parse_text_response.                                      *)
(***************************************************************************)
ParseTextResponse(text) ==
    IF IsErrorResponseText(text)
    THEN NewCommand(UNKNOWN, FAILED,
                    "AI detected an error and suggested retry", TRUE)
    ELSE IF Len(text) > 1
    THEN [NewCommand(COMPOSITE, PENDING, None, TRUE)
             EXCEPT !.sub_commands = ParseSubCommands(text)]
    ELSE LET command == ParseSingleCommand(text[1])
         IN  IF command = NoCommand
             THEN NewCommand(UNKNOWN, PENDING, "Could not parse command", TRUE)
             ELSE command

(***************************************************************************)
(* Function-call responses: a call is its name and its arguments.  "other" *)
(* is any name outside the five of _parse_function_call.  The arguments    *)
(* are "given" (the ones the command reads are there and of the declared   *)
(* types), "missing" (arguments.get takes its default: 0, "" or []) or     *)
(* "invalid" (a value the payload model rejects, such as x = "left").      *)
(***************************************************************************)
FunctionName ==
    {"execute_mouse_movement", "execute_keyboard_input", "execute_hotkey",
     "start_application", "print_output", "other"}
Arguments == {"given", "missing", "invalid"}
FunctionCall == [name : FunctionName, args : Arguments]
CallLists == UNION {[1..n -> FunctionCall] : n \in 0..MaxCalls}

\* the five names of _parse_function_call and the type each one gives
FunctionTable(name) ==
    CASE name = "execute_mouse_movement" -> MOUSE_MOVE
      [] name = "execute_keyboard_input" -> KEYBOARD_TYPE
      [] name = "execute_hotkey" -> KEYBOARD_HOTKEY
      [] name = "start_application" -> START_PROCESS
      [] name = "print_output" -> PRINT_OUTPUT
      [] OTHER -> None

\* CommandParser._parse_function_call: None for a name outside the table
\* (lines 309-311) and when the payload model raises on the arguments (the
\* except clause of lines 313-315); a missing argument takes its default
ParseFunctionCall(call) ==
    IF FunctionTable(call.name) = None \/ call.args = "invalid"
    THEN NoCommand
    ELSE NewCommand(FunctionTable(call.name), PENDING, None,
                    /\ call.args = "missing"
                    /\ call.name # "execute_mouse_movement")

RECURSIVE ParseCalls(_)
ParseCalls(calls) ==
    IF calls = << >> THEN << >>
    ELSE LET sub == ParseFunctionCall(Head(calls))
         IN  IF sub = NoCommand THEN ParseCalls(Tail(calls))
             ELSE << sub >> \o ParseCalls(Tail(calls))

(***************************************************************************)
(* CommandParser.parse_function_call_response.                             *)
(***************************************************************************)
ParseFunctionCallResponse(calls) ==
    IF calls = << >>
    THEN NewCommand(UNKNOWN, PENDING, "No function calls found in response",
                    TRUE)
    ELSE IF Len(calls) > 1
    THEN [NewCommand(COMPOSITE, PENDING, None, TRUE)
             EXCEPT !.sub_commands = ParseCalls(calls)]
    ELSE LET command == ParseFunctionCall(calls[1])
         IN  IF command = NoCommand
             THEN NewCommand(UNKNOWN, PENDING, "Could not parse function call",
                             TRUE)
             ELSE command

(***************************************************************************)
(* models/response.py: AIResponse, by its type, its raw_text and its       *)
(* function_calls.                                                         *)
(***************************************************************************)
TextResponse(text) ==
    [type |-> "COMMAND", raw_text |-> text, function_calls |-> << >>]
FunctionCallResponse(calls) ==
    [type |-> "FUNCTION_CALL", raw_text |-> << EMPTY >>,
     function_calls |-> calls]
\* AIResponse.create_error_response("Error generating command: ...")
ErrorResponse ==
    [type |-> "ERROR", raw_text |-> << "junk" >>, function_calls |-> << >>]
NoResponse == [type |-> None, raw_text |-> << >>, function_calls |-> << >>]

Responses ==
    {TextResponse(t) : t \in Texts}
        \cup {FunctionCallResponse(c) : c \in CallLists}
        \cup {ErrorResponse}

\* execute_ai_response, lines 479-482: the parser by the response's type
ParseResponse(response) ==
    IF response.type = "FUNCTION_CALL"
    THEN ParseFunctionCallResponse(response.function_calls)
    ELSE ParseTextResponse(response.raw_text)

(***************************************************************************)
(* The state.                                                              *)
(*   response   the AIResponse being handled                               *)
(*   command    the top-level Command of execute_command                   *)
(*   epc        where the executor is: idle, call (execute_command         *)
(*              entered), single, loop (between two sub-commands), sub (a  *)
(*              sub-command running), finish (the loop left), returned     *)
(*   idx        the loop's position in command.sub_commands                *)
(*   success    _execute_composite_command's success                       *)
(*   attempted  the sub-commands this call started, in the order started   *)
(*   outcomes   the sub_success of each sub-command that returned          *)
(*   invoked    the host primitives this call invoked: 0 for the top-level *)
(*              command, i for sub-command i                               *)
(*   faulted    a primitive of this call raised or exited non-zero         *)
(*   returned   what execute_command returned (read when epc = returned)   *)
(*   entry      the command as it was when execute_command was entered     *)
(*   clock      datetime.now(), counted from the command's created_at      *)
(*   runs       the execute_command calls made on the command              *)
(***************************************************************************)
VARIABLES response, command, epc, idx, success, attempted, outcomes, invoked,
          faulted, returned, entry, clock, runs

(***************************************************************************)
(* The request pipeline.                                                   *)
(*   program    which program runs: library (the executor on its own),     *)
(*              app (Application.process_command), alpha (the alpha        *)
(*              script's main loop), mainwindow (MainWindow as it is       *)
(*              constructed) or run (MainWindow as Application.run wires   *)
(*              it to process_command)                                     *)
(*   ppc        where the pipeline is in the current request               *)
(*   calls      the collaborator calls of the current request: the retry   *)
(*              flag passed, whether the model call raised, the response   *)
(*   captures   the screen captures of the current request                 *)
(*   handed     the responses of the current request given to the          *)
(*              parse/execute path, each with the retry flag               *)
(*   result     how the current request ended                              *)
(*   steps      the stages of process_command the current request has      *)
(*              called, in the order called                                *)
(*   input_enabled  the input field and the send button are enabled        *)
(*   workers    the CommandWorker threads that are alive: running the      *)
(*              callback, or with finished emitted and not yet delivered   *)
(*   sent       the inputs _on_send has accepted                           *)
(***************************************************************************)
VARIABLES program, ppc, calls, captures, handed, result, steps

VARIABLES input_enabled, workers, sent

uiVars == << input_enabled, workers, sent >>

pipeVars == << program, ppc, calls, captures, handed, result, steps, uiVars >>

execVars ==
    << response, command, epc, idx, success, attempted, outcomes, invoked,
       faulted, returned, entry, clock, runs >>

(***************************************************************************)
(* The context store (ai/context_manager.py).                              *)
(*   max_entries   ContextWindow.max_entries                               *)
(*   time_window   ContextWindow.time_window, in seconds                   *)
(*   entries       ContextWindow.entries: each entry is its timestamp and  *)
(*                 seq, the number of the add_entry call that brought it   *)
(*                 (which stands for the entry's command, user_prompt,     *)
(*                 result and screenshot_id)                               *)
(*   before        entries as they were when the last add_entry was called *)
(*   added         the add_entry calls made                                *)
(*   system_state  ContextManager.system_state: key -> value, updated_at   *)
(*   read          the last operation on system_state: its name, its       *)
(*                 arguments, the time it ran at, the entry it found under *)
(*                 its key, and what it returned (key -> entry; the caller *)
(*                 gets the values)                                        *)
(*   time          time.time(), in seconds                                 *)
(*   ticks         the advances of the clock so far                        *)
(*   user_preferences  ContextManager.user_preferences: key -> value       *)
(*   disk          the context file                                        *)
(*   saved         the store as the save_to_disk that wrote the file found *)
(*                 it; not valid when the file is anything else            *)
(*   io            the last save_to_disk or load_from_disk: its name, what *)
(*                 it returned, and a bit that changes with every call     *)
(***************************************************************************)
VARIABLES max_entries, time_window, entries, before, added, system_state,
          read, time, ticks

VARIABLES user_preferences, disk, saved, io

\* the last get_recent_entries call: its count (or that it was omitted) and
\* the list it returned
VARIABLES recent

persistVars == << user_preferences, disk, saved, io >>

ctxVars ==
    << max_entries, time_window, entries, before, added, system_state, read,
       time, ticks, persistVars, recent >>

(***************************************************************************)
(* The plugin manager (plugins/plugin_manager.py), as Application uses it: *)
(* discover_plugins and initialize_plugins at start-up, shutdown_plugins   *)
(* at exit.                                                                *)
(*   mpc             where the manager is: "new", "discovered",            *)
(*                   "initializing", "active", "shutting", "down"          *)
(*   plugin_classes  the ids of PluginManager.plugin_classes, in the       *)
(*                   order discover_plugins registered them                *)
(*   graph           the dependencies the plugins declare: pairs of a      *)
(*                   plugin and an id it names (discovered or not)         *)
(*   plugin_order    what _sort_plugins_by_dependencies returned           *)
(*   plugins         the ids of PluginManager.plugins, in the order of the *)
(*                   dict (the order the keys were first set)              *)
(*   initialized     the plugins initialize_plugins has tried, in order    *)
(*   shutdowns       the plugins whose shutdown() was called, in order     *)
(*   raised          a shutdown() has raised                               *)
(*   todo            what the running loop has still to visit              *)
(***************************************************************************)
VARIABLES mpc, plugin_classes, graph, plugin_order, plugins, initialized,
          shutdowns, raised, todo

pluginVars ==
    << mpc, plugin_classes, graph, plugin_order, plugins, initialized,
       shutdowns, raised, todo >>

(***************************************************************************)
(* The host primitives (pyautogui, subprocess.run, print) are outside the  *)
(* program: each call returns, raises, or (subprocess.run with check=True) *)
(* reports a non-zero exit as CalledProcessError.                          *)
(***************************************************************************)
\* _execute_keyboard_type, _execute_keyboard_hotkey and _execute_start_process
\* return False before the primitive when the payload is empty; an UNKNOWN or
\* COMPOSITE command reaches no primitive in _execute_single_command
InvokesPrimitive(c) ==
    CASE c.type \in {MOUSE_MOVE, MOUSE_CLICK, PRINT_OUTPUT} -> TRUE
      [] c.type \in {KEYBOARD_TYPE, KEYBOARD_HOTKEY, START_PROCESS} ->
            ~c.dataEmpty
      [] OTHER -> FALSE

PrimitiveOutcomes(c) ==
    IF ~InvokesPrimitive(c) THEN {"no call"}
    ELSE IF c.type = START_PROCESS THEN {"ok", "raise", "non-zero exit"}
    ELSE {"ok", "raise"}

\* _execute_start_process, lines 459-464: CalledProcessError gives False
\* (the variant: run without check=True, a non-zero exit goes unnoticed)
ExecuteStartProcessMutant(outcome) == outcome \in {"ok", "non-zero exit"}
ExecuteStartProcess(outcome) == outcome = "ok"

(***************************************************************************)
(* CommandExecutor._execute_single_command with the _execute_* it          *)
(* dispatches to: True when the primitive returned, False when the payload *)
(* is empty, the type has no primitive, or the primitive raised (the       *)
(* except clause of lines 398-400).                                        *)
(***************************************************************************)
ExecuteSingleCommand(c, outcome) ==
    /\ InvokesPrimitive(c)
    /\ IF c.type = START_PROCESS THEN ExecuteStartProcess(outcome)
       ELSE outcome = "ok"

IsFault(outcome) == outcome \in {"raise", "non-zero exit"}

\* execute_command, lines 331-333 (the variant: no test of the status)
SkipsExecutionMutant(c) == FALSE
SkipsExecution(c) == c.status = FAILED

\* execute_command, lines 343-346 (the variant: a command that did not
\* succeed is left as it is)
FinishCommandMutant(c, ok, now) ==
    IF ok THEN UpdateStatus(c, COMPLETED, None, now) ELSE c
FinishCommand(c, ok, now) ==
    IF ok THEN UpdateStatus(c, COMPLETED, None, now)
    ELSE UpdateStatus(c, FAILED, "Command execution failed", now)

\* _execute_composite_command, line 362 (the variant: success = sub_success)
AggregateMutant(acc, sub_success) == sub_success
Aggregate(acc, sub_success) == acc /\ sub_success

\* _execute_composite_command, lines 364-366: the break (the variants: no
\* break; a break on every failure)
HaltsNever(sub_success, sub) == FALSE
HaltsOnAnyFailure(sub_success, sub) == ~sub_success
Halts(sub_success, sub) == ~sub_success /\ sub.type # PRINT_OUTPUT

\* _execute_composite_command, line 360: the for loop's next position (the
\* variant: a sub-command is stepped over)
NextSubCommandMutant(i) == i + 2
NextSubCommand(i) == i + 1

ExecInit ==
    /\ response = NoResponse
    /\ command = NoCommand
    /\ epc = "idle"
    /\ idx = 0
    /\ success = TRUE
    /\ attempted = << >>
    /\ outcomes = << >>
    /\ invoked = << >>
    /\ faulted = FALSE
    /\ returned = FALSE
    /\ entry = NoCommand
    /\ clock = 1
    /\ runs = 0

(***************************************************************************)
(* execute_ai_response, lines 479-485: parse the response and call         *)
(* execute_command on the command.                                         *)
(***************************************************************************)
ExecuteAIResponse(r) ==
    /\ response' = r
    /\ command' = ParseResponse(r)
    /\ epc' = "call"
    /\ runs' = 1
    /\ returned' = FALSE
    /\ entry' = NoCommand
    /\ idx' = 0
    /\ success' = TRUE
    /\ attempted' = << >>
    /\ outcomes' = << >>
    /\ invoked' = << >>
    /\ faulted' = FALSE
    /\ clock' = 1
    /\ UNCHANGED pluginVars

(***************************************************************************)
(* execute_command, lines 331-341: a FAILED command is skipped; any other  *)
(* is set EXECUTING and dispatched.  Nothing inside the try of lines       *)
(* 335-348 raises (_execute_single_command catches every Exception), so    *)
(* the except clause of lines 350-354 is never entered.                    *)
(***************************************************************************)
ExecuteCommandEnter ==
    /\ epc = "call"
    /\ entry' = command
    /\ attempted' = << >>
    /\ outcomes' = << >>
    /\ invoked' = << >>
    /\ faulted' = FALSE
    /\ success' = TRUE
    /\ idx' = 1
    /\ IF SkipsExecution(command)
       THEN /\ returned' = FALSE
            /\ epc' = "returned"
            /\ UNCHANGED << command, clock >>
       ELSE /\ command' = UpdateStatus(command, EXECUTING, None, clock)
            /\ clock' = clock + 1
            /\ returned' = FALSE
            /\ epc' = IF command.type # COMPOSITE THEN "single"
                      ELSE IF command.sub_commands = << >> THEN "finish"
                      ELSE "loop"
    /\ UNCHANGED << response, runs >>
    /\ UNCHANGED pipeVars
    /\ UNCHANGED ctxVars
    /\ UNCHANGED pluginVars

(***************************************************************************)
(* execute_command, lines 341-348, on a command that is not COMPOSITE.     *)
(***************************************************************************)
ExecuteSingle ==
    /\ epc = "single"
    /\ \E outcome \in PrimitiveOutcomes(command) :
          LET ok == ExecuteSingleCommand(command, outcome)
          IN  /\ invoked' = IF InvokesPrimitive(command) THEN << 0 >>
                            ELSE << >>
              /\ faulted' = IsFault(outcome)
              /\ command' = FinishCommand(command, ok, clock)
              /\ returned' = ok
    /\ clock' = clock + 1
    /\ epc' = "returned"
    /\ UNCHANGED << response, idx, success, attempted, outcomes, entry, runs >>
    /\ UNCHANGED pipeVars
    /\ UNCHANGED ctxVars
    /\ UNCHANGED pluginVars

(***************************************************************************)
(* _execute_composite_command, lines 360-361: the loop takes the next      *)
(* sub-command and calls _execute_single_command on it.                    *)
(***************************************************************************)
SubCommandStart ==
    /\ epc = "loop"
    /\ idx \in 1..Len(command.sub_commands)
    /\ attempted' = Append(attempted, idx)
    /\ invoked' = IF InvokesPrimitive(command.sub_commands[idx])
                  THEN Append(invoked, idx) ELSE invoked
    /\ epc' = "sub"
    /\ UNCHANGED << response, command, idx, success, outcomes, faulted,
                    returned, entry, clock, runs >>
    /\ UNCHANGED pipeVars
    /\ UNCHANGED ctxVars
    /\ UNCHANGED pluginVars

(***************************************************************************)
(* _execute_composite_command, lines 361-369: _execute_single_command      *)
(* returns; success is updated; the loop breaks or sleeps and goes on.     *)
(***************************************************************************)
SubCommandReturn ==
    /\ epc = "sub"
    /\ LET sub == command.sub_commands[idx]
       IN  \E outcome \in PrimitiveOutcomes(sub) :
              LET sub_success == ExecuteSingleCommand(sub, outcome)
                  next == NextSubCommand(idx)
              IN  /\ outcomes' = Append(outcomes, sub_success)
                  /\ success' = Aggregate(success, sub_success)
                  /\ faulted' = (faulted \/ IsFault(outcome))
                  /\ IF Halts(sub_success, sub)
                        \/ next > Len(command.sub_commands)
                     THEN epc' = "finish" /\ idx' = idx
                     ELSE epc' = "loop" /\ idx' = next
    /\ UNCHANGED << response, command, attempted, invoked, returned, entry,
                    clock, runs >>
    /\ UNCHANGED pipeVars
    /\ UNCHANGED ctxVars
    /\ UNCHANGED pluginVars

(***************************************************************************)
(* _execute_composite_command, line 371, and execute_command, lines        *)
(* 343-348: the composite's status and the returned flag.                  *)
(***************************************************************************)
CompositeFinish ==
    /\ epc = "finish"
    /\ command' = FinishCommand(command, success, clock)
    /\ clock' = clock + 1
    /\ returned' = success
    /\ epc' = "returned"
    /\ UNCHANGED << response, idx, success, attempted, outcomes, invoked,
                    faulted, entry, runs >>
    /\ UNCHANGED pipeVars
    /\ UNCHANGED ctxVars
    /\ UNCHANGED pluginVars

ExecutorStep ==
    \/ ExecuteCommandEnter
    \/ ExecuteSingle
    \/ SubCommandStart
    \/ SubCommandReturn
    \/ CompositeFinish

(***************************************************************************)
(* The executor used as a library: any response is parsed and executed,    *)
(* and execute_command may be called again on the command it returned.     *)
(***************************************************************************)
\* the executor with no command at hand
ExecReset ==
    /\ response' = NoResponse
    /\ command' = NoCommand
    /\ epc' = "idle"
    /\ idx' = 0
    /\ success' = TRUE
    /\ attempted' = << >>
    /\ outcomes' = << >>
    /\ invoked' = << >>
    /\ faulted' = FALSE
    /\ returned' = FALSE
    /\ entry' = NoCommand
    /\ clock' = 1
    /\ runs' = 0
    /\ UNCHANGED pluginVars

Submit ==
    /\ program = "library"
    /\ epc = "idle"
    /\ \E r \in Responses : ExecuteAIResponse(r)
    /\ UNCHANGED pipeVars
    /\ UNCHANGED ctxVars
    /\ UNCHANGED pluginVars

\* the caller drops the command; the executor keeps no state of its own
Discard ==
    /\ program = "library"
    /\ epc = "returned"
    /\ ExecReset
    /\ UNCHANGED pipeVars
    /\ UNCHANGED ctxVars
    /\ UNCHANGED pluginVars

ExecuteAgain ==
    /\ program = "library"
    /\ epc = "returned"
    /\ runs < MaxRuns
    /\ runs' = runs + 1
    /\ epc' = "call"
    /\ UNCHANGED << response, command, idx, success, attempted, outcomes,
                    invoked, faulted, returned, entry, clock >>
    /\ UNCHANGED pipeVars
    /\ UNCHANGED ctxVars
    /\ UNCHANGED pluginVars

(***************************************************************************)
(* ai/context_manager.py: the rolling window of the conversation history   *)
(* and the system state with its time to live.                             *)
(***************************************************************************)
\* ContextWindow.max_entries and time_window as declared, and as
\* ContextManager.__init__ defaults them
DEFAULT_MAX_ENTRIES == 10
DEFAULT_TIME_WINDOW == 3600
\* get_system_state and get_all_system_state: "expired (1 hour)"
STATE_TTL == 3600

\* the configurations of ContextWindow(max_entries, time_window)
MaxEntriesValues == 0..MaxMaxEntries
TimeWindows == {1, DEFAULT_TIME_WINDOW}
\* the clock advances by a second or by an hour
ClockSteps == {1, STATE_TTL}
\* the values the clock takes
Times == {a + STATE_TTL * b : a \in 0..MaxTicks, b \in 0..MaxTicks}

CommandEntry(timestamp, seq) == [timestamp |-> timestamp, seq |-> seq]

\* Python's es[-n:]: the last n elements, all of them when n is 0 (-0 is 0)
LastEntries(es, n) ==
    IF n = 0 \/ n >= Len(es) THEN es
    ELSE SubSeq(es, Len(es) - n + 1, Len(es))

\* _prune_old_entries, lines 47-48
IsRecent(e, window, t) == e.timestamp >= t - window
PruneByTime(es, window, t) ==
    LET Keep(e) == IsRecent(e, window, t) IN SelectSeq(es, Keep)
\* _prune_old_entries, lines 43-44
PruneByCount(es, max) ==
    IF Len(es) > max THEN LastEntries(es, max) ELSE es

\* ContextWindow._prune_old_entries (the variant: by time, then by count)
PruneOldEntriesMutant(es, max, window, t) ==
    PruneByCount(PruneByTime(es, window, t), max)
PruneOldEntries(es, max, window, t) ==
    PruneByTime(PruneByCount(es, max), window, t)

\* ContextWindow.add_entry
AddEntry(es, e, max, window, t) ==
    PruneOldEntries(Append(es, e), max, window, t)

\* ContextWindow.get_recent_entries: count is None, or the slice of line 54
GetRecentEntriesResult(es, omitted, count) ==
    IF omitted THEN es ELSE LastEntries(es, count)
RecentCall(omitted, count, res) ==
    [called |-> TRUE, omitted |-> omitted, count |-> count, result |-> res]
NoRecent == [called |-> FALSE, omitted |-> TRUE, count |-> 0, result |-> << >>]

\* a system_state entry; the store with no key
StateEntry(value, updated_at) == [value |-> value, updated_at |-> updated_at]
NoState == << >>
Keys == {"k1", "k2"}
Values == {"v1", "v2"}

\* the test of lines 112 and 129 (the variant: the operands swapped)
IsExpiredMutant(e, t) == e.updated_at - t > STATE_TTL
IsExpired(e, t) == t - e.updated_at > STATE_TTL

Restrict(state, ks) == [k \in ks |-> state[k]]

\* get_system_state: the store it leaves (line 113: del; the variant: the
\* expired entry stays)
GetSystemStateStoreMutant(state, k, t) == state
GetSystemStateStore(state, k, t) ==
    IF k \in DOMAIN state /\ IsExpired(state[k], t)
    THEN Restrict(state, DOMAIN state \ {k})
    ELSE state

\* get_system_state: what it returns, None as the store with no key
GetSystemStateResult(state, k, t) ==
    IF k \notin DOMAIN state \/ IsExpired(state[k], t)
    THEN NoState
    ELSE Restrict(state, {k})

\* get_all_system_state
GetAllSystemStateResult(state, include_expired, t) ==
    IF include_expired THEN state
    ELSE Restrict(state, {k \in DOMAIN state : ~IsExpired(state[k], t)})

Operation(op, key, include_expired, t, found, res) ==
    [op |-> op, key |-> key, include_expired |-> include_expired, at |-> t,
     found |-> found, result |-> res]
NoOperation == Operation(None, None, FALSE, 0, NoState, NoState)

(***************************************************************************)
(* save_to_disk and load_from_disk.  json.dump and json.load are modelled  *)
(* by what they do to a value, dataclasses.asdict and the constructor of CommandEntry by *)
(* the keys they write and require.                                        *)
(***************************************************************************)
\* what a caller passes as value: Any.  Values are written and read back as
\* they are (str, int, float, bool, None, lists and dicts of them); "tuple"
\* is a tuple, which json.dump writes as an array, so that json.load reads
\* the list "list"; "object" is a value json.dump raises TypeError on (a
\* set, a datetime, an instance)
AnyValues == {"v1", "tuple", "object"}
\* the keys and values each program's callers use
KeysOf(p) == IF p \in {"persist", "prefs"} THEN {"k1"} ELSE Keys
ValuesOf(p) == IF p = "persist" THEN AnyValues ELSE Values
JsonEncodes(v) == v # "object"
JsonDecoded(v) == IF v = "tuple" THEN "list" ELSE v

\* the fields of CommandEntry: asdict writes them all, the constructor of CommandEntry
\* raises TypeError unless d has exactly these keys
EntryFields ==
    {"timestamp", "command", "user_prompt", "result", "screenshot_id"}
AsDict(e) == [fields |-> EntryFields, timestamp |-> e.timestamp, seq |-> e.seq]
IsEntryDict(d) == d.fields = EntryFields
FromDict(d) == CommandEntry(d.timestamp, d.seq)

\* system_state and user_preferences as json.load reads what json.dump wrote
JsonState(state) ==
    [k \in DOMAIN state |->
        StateEntry(JsonDecoded(state[k].value), state[k].updated_at)]
JsonPreferences(prefs) == [k \in DOMAIN prefs |-> JsonDecoded(prefs[k])]
\* json.dump raises TypeError
DumpRaises(state, prefs) ==
    \/ \E k \in DOMAIN state : ~JsonEncodes(state[k].value)
    \/ \E k \in DOMAIN prefs : ~JsonEncodes(prefs[k])

\* the file: missing, a text json.load raises on, a JSON array, or a JSON
\* object (key -> value)
MissingFile == [kind |-> "missing"]
UnparseableFile == [kind |-> "unparseable"]
ArrayFile == [kind |-> "array"]
ObjectFile(data) == [kind |-> "object", data |-> data]

\* save_to_disk, lines 156-161: the object it writes
SaveData(es, state, prefs, t) ==
    ("conversation_history" :> [i \in 1..Len(es) |-> AsDict(es[i])])
        @@ ("system_state" :> JsonState(state))
        @@ ("user_preferences" :> JsonPreferences(prefs))
        @@ ("saved_at" :> t)

\* save_to_disk: True unless open or json.dump raises
SaveToDiskResult(state, prefs, opened) == opened /\ ~DumpRaises(state, prefs)
\* save_to_disk: the file it leaves.  open(file_path, "w") raises and the file
\* is as it was, or it empties the file; json.dump then writes the object,
\* or raises and leaves a part of the text
SaveToDiskFile(file, es, state, prefs, t, opened) ==
    IF ~opened THEN file
    ELSE IF DumpRaises(state, prefs) THEN UnparseableFile
    ELSE ObjectFile(SaveData(es, state, prefs, t))

\* data.get(key, default)
Get(data, key, default) == IF key \in DOMAIN data THEN data[key] ELSE default

\* load_from_disk: json.load raises, data.get raises on an array, or
\* the constructor of CommandEntry raises on an entry of the history
LoadRaises(file) ==
    \/ file.kind \in {"unparseable", "array"}
    \/ /\ file.kind = "object"
       /\ LET history == Get(file.data, "conversation_history", << >>)
          IN  \E i \in 1..Len(history) : ~IsEntryDict(history[i])
\* load_from_disk: False when the file is missing or the try block raises
LoadFromDiskResult(file) == file.kind # "missing" /\ ~LoadRaises(file)

\* the three components of a store
Store(es, state, prefs) ==
    [entries |-> es, system_state |-> state, user_preferences |-> prefs]

\* load_from_disk: the store it leaves.  The list of entries is built before
\* it is assigned, and nothing raises after that (the variant: system_state
\* and user_preferences are restored before the entries are built)
LoadFromDiskStoreMutant(store, file) ==
    IF file.kind # "object" THEN store
    ELSE LET history == Get(file.data, "conversation_history", << >>)
         IN  Store(IF LoadRaises(file) THEN store.entries
                   ELSE [i \in 1..Len(history) |-> FromDict(history[i])],
                   Get(file.data, "system_state", NoState),
                   Get(file.data, "user_preferences", NoState))
LoadFromDiskStore(store, file) ==
    IF ~LoadFromDiskResult(file) THEN store
    ELSE LET history == Get(file.data, "conversation_history", << >>)
         IN  Store([i \in 1..Len(history) |-> FromDict(history[i])],
                   Get(file.data, "system_state", NoState),
                   Get(file.data, "user_preferences", NoState))

\* files that save_to_disk did not write: none, a damaged one, an array, an
\* object with no key, and an object whose second history entry lacks a
\* field
MalformedDict ==
    [fields |-> EntryFields \ {"result"}, timestamp |-> 0, seq |-> 0]
ForeignFiles ==
    {MissingFile, UnparseableFile, ArrayFile, ObjectFile(<< >>),
     ObjectFile(("conversation_history" :>
                     << AsDict(CommandEntry(0, 0)), MalformedDict >>)
                @@ ("system_state" :> ("k1" :> StateEntry("v1", 0)))
                @@ ("user_preferences" :> ("k1" :> "v2")))}

NotSaved == [valid |-> FALSE]
Saved(store) == [valid |-> TRUE, store |-> store]
IO(op, ok, last) == [op |-> op, ok |-> ok, bit |-> 1 - last.bit]
NoIO == [op |-> None, ok |-> FALSE, bit |-> 0]

\* ContextManager.__init__: ContextWindow(max, window), an empty system_state
CtxInit(max, window) ==
    /\ max_entries = max
    /\ time_window = window
    /\ entries = << >>
    /\ before = << >>
    /\ added = 0
    /\ system_state = NoState
    /\ read = NoOperation
    /\ time = 0
    /\ ticks = 0
    /\ user_preferences = NoState
    /\ disk = MissingFile
    /\ saved = NotSaved
    /\ io = NoIO
    /\ recent = NoRecent

\* time.time() between two calls
Tick ==
    /\ program \in {"window", "store", "prefs", "history"}
    /\ ticks < MaxTicks
    /\ \E d \in ClockSteps : time' = time + d
    /\ ticks' = ticks + 1
    /\ UNCHANGED << max_entries, time_window, entries, before, added,
                    system_state, read >>
    /\ UNCHANGED persistVars
    /\ UNCHANGED << execVars, pipeVars >>
    /\ UNCHANGED pluginVars
    /\ UNCHANGED recent

\* ContextManager.add_command: an entry stamped time.time() is added
AddCommand ==
    /\ program \in {"window", "persist", "history"}
    /\ added < MaxAdds
    /\ before' = entries
    /\ entries' = AddEntry(entries, CommandEntry(time, added + 1), max_entries,
                           time_window, time)
    /\ added' = added + 1
    /\ UNCHANGED << max_entries, time_window, system_state, read, time, ticks >>
    /\ UNCHANGED persistVars
    /\ UNCHANGED << execVars, pipeVars >>
    /\ UNCHANGED pluginVars
    /\ UNCHANGED recent

\* ContextWindow.get_recent_entries
GetRecentEntries ==
    /\ program = "history"
    /\ \E omitted \in BOOLEAN, count \in 0..MaxAdds :
          recent' = RecentCall(omitted, IF omitted THEN 0 ELSE count,
                           GetRecentEntriesResult(entries, omitted, count))
    /\ UNCHANGED << max_entries, time_window, entries, before, added,
                    system_state, read, time, ticks >>
    /\ UNCHANGED persistVars
    /\ UNCHANGED << execVars, pipeVars >>
    /\ UNCHANGED pluginVars

\* ContextWindow.add_entry called with an entry stamped earlier
AddOlderEntry ==
    /\ program = "window"
    /\ added < MaxAdds
    /\ \E ts \in {t \in Times : t < time} :
          entries' = AddEntry(entries, CommandEntry(ts, added + 1),
                              max_entries, time_window, time)
    /\ before' = entries
    /\ added' = added + 1
    /\ UNCHANGED << max_entries, time_window, system_state, read, time, ticks >>
    /\ UNCHANGED persistVars
    /\ UNCHANGED << execVars, pipeVars >>
    /\ UNCHANGED pluginVars
    /\ UNCHANGED recent

\* ContextManager.update_system_state
UpdateSystemState ==
    /\ program \in {"store", "persist", "prefs"}
    /\ \E k \in KeysOf(program), v \in ValuesOf(program) :
          /\ system_state' = (k :> StateEntry(v, time)) @@ system_state
          /\ read' = Operation("update", k, FALSE, time, NoState, NoState)
    /\ UNCHANGED << max_entries, time_window, entries, before, added, time,
                    ticks >>
    /\ UNCHANGED persistVars
    /\ UNCHANGED << execVars, pipeVars >>
    /\ UNCHANGED pluginVars
    /\ UNCHANGED recent

\* ContextManager.get_system_state
GetSystemState ==
    /\ program \in {"store", "prefs"}
    /\ \E k \in KeysOf(program) :
          /\ system_state' = GetSystemStateStore(system_state, k, time)
          /\ read' = Operation("get", k, FALSE, time,
                               Restrict(system_state,
                                        {k} \cap DOMAIN system_state),
                               GetSystemStateResult(system_state, k, time))
    /\ UNCHANGED << max_entries, time_window, entries, before, added, time,
                    ticks >>
    /\ UNCHANGED persistVars
    /\ UNCHANGED << execVars, pipeVars >>
    /\ UNCHANGED pluginVars
    /\ UNCHANGED recent

\* ContextManager.get_all_system_state
GetAllSystemState ==
    /\ program \in {"store", "prefs"}
    /\ \E include_expired \in BOOLEAN :
          read' = Operation("get_all", None, include_expired, time, NoState,
                            GetAllSystemStateResult(system_state,
                                                    include_expired, time))
    /\ UNCHANGED << max_entries, time_window, entries, before, added,
                    system_state, time, ticks >>
    /\ UNCHANGED persistVars
    /\ UNCHANGED << execVars, pipeVars >>
    /\ UNCHANGED pluginVars
    /\ UNCHANGED recent

\* ContextManager.set_user_preference
SetUserPreference ==
    /\ program \in {"persist", "prefs"}
    /\ \E k \in KeysOf(program), v \in ValuesOf(program) :
          user_preferences' = (k :> v) @@ user_preferences
    /\ UNCHANGED << max_entries, time_window, entries, before, added,
                    system_state, read, time, ticks, disk, saved, io >>
    /\ UNCHANGED << execVars, pipeVars >>
    /\ UNCHANGED pluginVars
    /\ UNCHANGED recent

\* ContextManager.get_user_preference: dict.get, the value returned kept
\* under its key (the variant: dict.setdefault, which stores the default
\* under a key that is not set)
GetUserPreferenceMutant ==
    /\ program = "prefs"
    /\ \E k \in Keys, default \in {None, "v1"} :
          /\ read' = Operation("get_preference", k, FALSE, time,
                               user_preferences,
                               k :> Get(user_preferences, k, default))
          /\ user_preferences' = IF k \in DOMAIN user_preferences
                                 THEN user_preferences
                                 ELSE (k :> default) @@ user_preferences
    /\ UNCHANGED << max_entries, time_window, entries, before, added,
                    system_state, time, ticks, disk, saved, io >>
    /\ UNCHANGED << execVars, pipeVars >>
    /\ UNCHANGED pluginVars
    /\ UNCHANGED recent
GetUserPreference ==
    /\ program = "prefs"
    /\ \E k \in Keys, default \in {None, "v1"} :
          read' = Operation("get_preference", k, FALSE, time,
                            user_preferences,
                            k :> Get(user_preferences, k, default))
    /\ UNCHANGED << max_entries, time_window, entries, before, added,
                    system_state, time, ticks >>
    /\ UNCHANGED persistVars
    /\ UNCHANGED << execVars, pipeVars >>
    /\ UNCHANGED pluginVars
    /\ UNCHANGED recent

\* ContextManager.save_to_disk
SaveToDisk ==
    /\ program = "persist"
    /\ \E opened \in BOOLEAN :
          LET ok == SaveToDiskResult(system_state, user_preferences, opened)
          IN  /\ disk' = SaveToDiskFile(disk, entries, system_state,
                                        user_preferences, time, opened)
              /\ io' = IO("save", ok, io)
              /\ saved' = IF ok
                          THEN Saved(Store(entries, system_state,
                                           user_preferences))
                          ELSE IF opened THEN NotSaved ELSE saved
    /\ UNCHANGED << max_entries, time_window, entries, before, added,
                    system_state, read, time, ticks, user_preferences >>
    /\ UNCHANGED << execVars, pipeVars >>
    /\ UNCHANGED pluginVars
    /\ UNCHANGED recent

\* ContextManager.load_from_disk
LoadFromDisk ==
    /\ program = "persist"
    /\ LET store == LoadFromDiskStore(Store(entries, system_state,
                                            user_preferences), disk)
       IN  /\ entries' = store.entries
           /\ system_state' = store.system_state
           /\ user_preferences' = store.user_preferences
    /\ io' = IO("load", LoadFromDiskResult(disk), io)
    /\ UNCHANGED << max_entries, time_window, before, added, read, time,
                    ticks, disk, saved >>
    /\ UNCHANGED << execVars, pipeVars >>
    /\ UNCHANGED pluginVars
    /\ UNCHANGED recent

\* ContextManager.clear
Clear ==
    /\ program = "persist"
    /\ entries' = << >>
    /\ system_state' = NoState
    /\ user_preferences' = NoState
    /\ UNCHANGED << max_entries, time_window, before, added, read, time,
                    ticks, disk, saved, io >>
    /\ UNCHANGED << execVars, pipeVars >>
    /\ UNCHANGED pluginVars
    /\ UNCHANGED recent

\* ContextManager(max_entries) is constructed again, over the same file
NewStore ==
    /\ program = "persist"
    /\ max_entries' \in {1, DEFAULT_MAX_ENTRIES}
    /\ entries' = << >>
    /\ before' = << >>
    /\ system_state' = NoState
    /\ read' = NoOperation
    /\ user_preferences' = NoState
    /\ UNCHANGED << time_window, added, time, ticks, disk, saved, io >>
    /\ UNCHANGED << execVars, pipeVars >>
    /\ UNCHANGED pluginVars
    /\ UNCHANGED recent

\* the file is removed, damaged or replaced from outside the program
FileChanged ==
    /\ program = "persist"
    /\ disk' \in ForeignFiles
    /\ saved' = NotSaved
    /\ UNCHANGED << max_entries, time_window, entries, before, added,
                    system_state, read, time, ticks, user_preferences, io >>
    /\ UNCHANGED << execVars, pipeVars >>
    /\ UNCHANGED pluginVars
    /\ UNCHANGED recent

PersistStep ==
    \/ AddCommand
    \/ UpdateSystemState
    \/ SetUserPreference
    \/ SaveToDisk
    \/ LoadFromDisk
    \/ Clear
    \/ NewStore
    \/ FileChanged

ContextStep ==
    \/ Tick
    \/ AddCommand
    \/ AddOlderEntry
    \/ UpdateSystemState
    \/ GetSystemState
    \/ GetAllSystemState

\* system_state and user_preferences in use over the hours
PrefsStep ==
    \/ Tick
    \/ UpdateSystemState
    \/ GetSystemState
    \/ GetAllSystemState
    \/ SetUserPreference
    \/ GetUserPreference

\* the history as it grows, ages and is read
HistoryStep ==
    \/ Tick
    \/ AddCommand
    \/ GetRecentEntries

\* a program that does not use the context store leaves it as constructed
CtxIdle == CtxInit(DEFAULT_MAX_ENTRIES, DEFAULT_TIME_WINDOW)

(***************************************************************************)
(* PluginManager.                                                          *)
(***************************************************************************)
PluginIds == {"p" \o ToString(i) : i \in 1..MaxPlugins}
\* the first n plugin directories, in the order os.listdir gave them
Discovered(n) == [i \in 1..n |-> "p" \o ToString(i)]
Range(seq) == {seq[i] : i \in 1..Len(seq)}
\* the orders a set of ids can be iterated in
Orders(ids) ==
    {o \in [1..Cardinality(ids) -> ids] :
        \A i, j \in 1..Cardinality(ids) : i # j => o[i] # o[j]}
Reverse(seq) == [i \in 1..Len(seq) |-> seq[Len(seq) + 1 - i]]
\* d[k] = v on a dict whose keys are listed in order: a new key goes last,
\* a key already set keeps its place
DictSet(keys, k) == IF k \in Range(keys) THEN keys ELSE Append(keys, k)

\* PluginManager.__init__
PluginsIdle ==
    /\ mpc = "new"
    /\ plugin_classes = << >>
    /\ graph = {}
    /\ plugin_order = << >>
    /\ plugins = << >>
    /\ initialized = << >>
    /\ shutdowns = << >>
    /\ raised = FALSE
    /\ todo = << >>

\* _sort_plugins_by_dependencies: graph.get(plugin_id) of line 155 restricted
\* by line 156, in the order the set is iterated in (order lists every id)
DependenciesOf(g, classes, order, p) ==
    LET IsDependency(d) == << p, d >> \in g /\ d \in Range(classes)
    IN  SelectSeq(order, IsDependency)

NoneVisited == [result |-> << >>, visited |-> {}, temp_visited |-> {}]

\* lines 159-161 (the variant: the plugin is put before what is listed)
LeaveMutant(st, p) ==
    [result |-> << p >> \o st.result,
     visited |-> st.visited \cup {p},
     temp_visited |-> st.temp_visited \ {p}]
Leave(st, p) ==
    [result |-> Append(st.result, p),
     visited |-> st.visited \cup {p},
     temp_visited |-> st.temp_visited \ {p}]

RECURSIVE Visit(_, _, _, _, _), VisitAll(_, _, _, _, _)
\* visit(plugin_id), lines 145-161
Visit(g, classes, order, st, p) ==
    IF p \in st.temp_visited \/ p \in st.visited
    THEN st
    ELSE Leave(VisitAll(g, classes, order,
                        [st EXCEPT !.temp_visited = @ \cup {p}],
                        DependenciesOf(g, classes, order, p)),
               p)
\* the loops of lines 155-157 and 163-165
VisitAll(g, classes, order, st, ps) ==
    IF ps = << >>
    THEN st
    ELSE VisitAll(g, classes, order, Visit(g, classes, order, st, Head(ps)),
                  Tail(ps))

SortPluginsByDependencies(g, classes, order) ==
    VisitAll(g, classes, order, NoneVisited, classes).result

\* shutdown_plugins, lines 207-208 (the variant: the keys are not reversed)
ShutdownOrderMutant(keys) == keys
ShutdownOrder(keys) == Reverse(keys)

\* discover_plugins, called by Application._setup_plugins
DiscoverPlugins ==
    /\ program = "plugins"
    /\ mpc = "new"
    /\ \E n \in 0..MaxPlugins :
          /\ plugin_classes' = Discovered(n)
          /\ graph' \in {g \in SUBSET (Range(Discovered(n)) \X PluginIds) :
                            Cardinality(g) <= MaxEdges}
    /\ mpc' = "discovered"
    /\ UNCHANGED << plugin_order, plugins, initialized, shutdowns, raised,
                    todo >>
    /\ UNCHANGED << execVars, pipeVars, ctxVars >>

\* initialize_plugins up to its loop, called when a plugin was discovered
\* (main.py, lines 91-104)
InitializePlugins ==
    /\ program = "plugins"
    /\ mpc = "discovered"
    /\ plugin_classes # << >>
    /\ \E order \in Orders(PluginIds) :
          /\ plugin_order' =
                 SortPluginsByDependencies(graph, plugin_classes, order)
          /\ todo' = plugin_order'
    /\ mpc' = "initializing"
    /\ UNCHANGED << plugin_classes, graph, plugins, initialized, shutdowns,
                    raised >>
    /\ UNCHANGED << execVars, pipeVars, ctxVars >>

\* one turn of the loop of lines 116-126: the constructor and initialize()
\* return, or one of them raises
InitializePlugin ==
    /\ program = "plugins"
    /\ mpc = "initializing"
    /\ todo # << >>
    /\ initialized' = Append(initialized, Head(todo))
    /\ \E ok \in BOOLEAN :
          plugins' = IF ok THEN DictSet(plugins, Head(todo)) ELSE plugins
    /\ todo' = Tail(todo)
    /\ UNCHANGED << mpc, plugin_classes, graph, plugin_order, shutdowns,
                    raised >>
    /\ UNCHANGED << execVars, pipeVars, ctxVars >>

\* initialize_plugins returns, line 128
InitializeReturn ==
    /\ program = "plugins"
    /\ mpc = "initializing"
    /\ todo = << >>
    /\ mpc' = "active"
    /\ UNCHANGED << plugin_classes, graph, plugin_order, plugins,
                    initialized, shutdowns, raised, todo >>
    /\ UNCHANGED << execVars, pipeVars, ctxVars >>

\* shutdown_plugins up to its loop, called by Application._cleanup
ShutdownPlugins ==
    /\ program = "plugins"
    /\ mpc = "active" \/ (mpc = "discovered" /\ plugin_classes = << >>)
    /\ todo' = ShutdownOrder(plugins)
    /\ mpc' = "shutting"
    /\ UNCHANGED << plugin_classes, graph, plugin_order, plugins,
                    initialized, shutdowns, raised >>
    /\ UNCHANGED << execVars, pipeVars, ctxVars >>

\* one turn of the loop of lines 210-216: shutdown() returns or raises
ShutdownPlugin ==
    /\ program = "plugins"
    /\ mpc = "shutting"
    /\ todo # << >>
    /\ shutdowns' = Append(shutdowns, Head(todo))
    /\ \E ok \in BOOLEAN : raised' = (raised \/ ~ok)
    /\ todo' = Tail(todo)
    /\ UNCHANGED << mpc, plugin_classes, graph, plugin_order, plugins,
                    initialized >>
    /\ UNCHANGED << execVars, pipeVars, ctxVars >>

\* self.plugins.clear(), line 218
ShutdownReturn ==
    /\ program = "plugins"
    /\ mpc = "shutting"
    /\ todo = << >>
    /\ plugins' = << >>
    /\ mpc' = "down"
    /\ UNCHANGED << plugin_classes, graph, plugin_order, initialized,
                    shutdowns, raised, todo >>
    /\ UNCHANGED << execVars, pipeVars, ctxVars >>

PluginStep ==
    \/ DiscoverPlugins
    \/ InitializePlugins
    \/ InitializePlugin
    \/ InitializeReturn
    \/ ShutdownPlugins
    \/ ShutdownPlugin
    \/ ShutdownReturn

PipeInit(p) ==
    /\ program = p
    /\ ppc = "idle"
    /\ calls = << >>
    /\ captures = 0
    /\ handed = << >>
    /\ result = None
    /\ steps = << >>
    /\ input_enabled = TRUE
    /\ workers = << >>
    /\ sent = 0

vars == << execVars, pipeVars, ctxVars, pluginVars >>

Init == ExecInit /\ PipeInit("library") /\ CtxIdle /\ PluginsIdle

Next == Submit \/ ExecuteAgain \/ Discard \/ ExecutorStep

Spec == Init /\ [][Next]_vars

(***************************************************************************)
(* The collaborator.  GeminiClient.generate_command returns the model's    *)
(* text or function calls, and an ERROR response when the call raises,     *)
(* whatever the retry flag.                                                *)
(***************************************************************************)
PipelineTexts == UNION {[1..n -> Fragment] : n \in 1..MaxPipelineFrags}

GenerateCommandResults(retry) ==
    {[retry |-> retry, raised |-> FALSE, response |-> r] :
        r \in {TextResponse(t) : t \in PipelineTexts}
                 \cup {FunctionCallResponse(c) : c \in CallLists \ {<< >>}}}
        \cup {[retry |-> retry, raised |-> TRUE, response |-> ErrorResponse]}

(***************************************************************************)
(* The alpha script's analyze_image_and_generate_command: the model's text *)
(* stripped, and when the call raises the sentinel without the retry flag  *)
(* and print('An error occurred') with it.                                 *)
(***************************************************************************)
AnalyzeFailure(retry) ==
    IF ~retry THEN TextResponse(<< SENTINEL >>)
    ELSE TextResponse(<< PRINT_ERR >>)

AnalyzeResults(retry) ==
    {[retry |-> retry, raised |-> FALSE, response |-> TextResponse(t)] :
        t \in PipelineTexts}
        \cup {[retry |-> retry, raised |-> TRUE,
               response |-> AnalyzeFailure(retry)]}

\* the response is the sentinel: the text parse_text_response compares with
IsSentinel(r) == r.type # "FUNCTION_CALL" /\ r.raw_text = << SENTINEL >>

\* the alpha loop's tests on the response text, lines 201, 208 and 215 (the
\* variant of the first: every response is retried)
StartsWithSentinelMutant(r) == TRUE
StartsWithSentinel(r) == r.raw_text[1] \in {SENTINEL, "sentinelMore"}
StartsWithAnError(r) ==
    r.raw_text[1] \in {SENTINEL, "sentinelMore", "anError"}
StartsWithPrint(r) == r.raw_text[1] \in {"print", "printBad", PRINT_ERR}

\* a new request: what the last one left is dropped
BeginRequest ==
    /\ calls' = << >>
    /\ captures' = 0
    /\ handed' = << >>
    /\ result' = None
    /\ steps' = << >>
    /\ UNCHANGED pluginVars

(***************************************************************************)
(* Application.process_command (main.py, lines 153-208), step by step.     *)
(***************************************************************************)
\* the programs that run process_command
RunsProcessCommand == program \in {"app", "run"}

\* the statement that follows each stage, lines 168-196 (the variant: the
\* context is read after the collaborator has been called)
NextStageMutant(stage) ==
    CASE stage = "capture" -> "generate"
      [] stage = "generate" -> "context"
      [] stage = "context" -> "execute"
      [] stage = "execute" -> "append"
      [] stage = "append" -> "save"
      [] stage = "save" -> "done"
NextStage(stage) ==
    CASE stage = "capture" -> "context"
      [] stage = "context" -> "generate"
      [] stage = "generate" -> "execute"
      [] stage = "execute" -> "append"
      [] stage = "append" -> "save"
      [] stage = "save" -> "done"

\* process_command is called with a prompt
AppSubmit ==
    /\ program = "app"
    /\ ppc = "idle"
    /\ added < MaxAdds
    /\ BeginRequest
    /\ ppc' = "capture"
    /\ ExecReset
    /\ UNCHANGED << program, uiVars >>
    /\ UNCHANGED ctxVars
    /\ UNCHANGED pluginVars

\* line 168: capture_screenshot returns, or raises into the except of line
\* 205 (the variant: nothing catches what it raises)
AppCaptureMutant ==
    /\ RunsProcessCommand
    /\ ppc = "capture"
    /\ captures' = captures + 1
    /\ steps' = Append(steps, "capture")
    /\ \/ ppc' = NextStage("capture") /\ UNCHANGED result
       \/ ppc' = "crashed" /\ UNCHANGED result
    /\ UNCHANGED << program, calls, handed, uiVars >>
    /\ UNCHANGED execVars
    /\ UNCHANGED ctxVars
    /\ UNCHANGED pluginVars
AppCapture ==
    /\ RunsProcessCommand
    /\ ppc = "capture"
    /\ captures' = captures + 1
    /\ steps' = Append(steps, "capture")
    /\ \/ ppc' = NextStage("capture") /\ UNCHANGED result
       \/ ppc' = "done" /\ result' = "Error processing command"
    /\ UNCHANGED << program, calls, handed, uiVars >>
    /\ UNCHANGED execVars
    /\ UNCHANGED ctxVars
    /\ UNCHANGED pluginVars

\* line 171: get_context_for_prompt
AppGetContext ==
    /\ RunsProcessCommand
    /\ ppc = "context"
    /\ steps' = Append(steps, "context")
    /\ ppc' = NextStage("context")
    /\ UNCHANGED << program, calls, captures, handed, result, uiVars >>
    /\ UNCHANGED execVars
    /\ UNCHANGED ctxVars
    /\ UNCHANGED pluginVars

\* lines 174-178: generate_command, called without the retry argument
AppGenerate ==
    /\ RunsProcessCommand
    /\ ppc = "generate"
    /\ \E c \in GenerateCommandResults(FALSE) : calls' = Append(calls, c)
    /\ steps' = Append(steps, "generate")
    /\ ppc' = NextStage("generate")
    /\ UNCHANGED << program, captures, handed, result, uiVars >>
    /\ UNCHANGED execVars
    /\ UNCHANGED ctxVars
    /\ UNCHANGED pluginVars

\* lines 181-185: whatever generate_command returned goes to
\* execute_ai_response, which parses it and calls execute_command
AppExecute ==
    /\ RunsProcessCommand
    /\ ppc = "execute"
    /\ LET c == calls[Len(calls)]
       IN  /\ handed' = Append(handed, [response |-> c.response,
                                        retry |-> c.retry])
           /\ ExecuteAIResponse(c.response)
    /\ steps' = Append(steps, "execute")
    /\ ppc' = "executing"
    /\ UNCHANGED << program, calls, captures, result, uiVars >>
    /\ UNCHANGED ctxVars
    /\ UNCHANGED pluginVars

\* lines 188-193: execute_ai_response has returned; add_command puts the
\* command into the history.  (The requests of one behaviour are made
\* within the same second; a behaviour makes at most MaxAdds of them.)
AppAddCommand ==
    /\ RunsProcessCommand
    /\ ppc = "executing"
    /\ epc = "returned"
    /\ before' = entries
    /\ entries' = AddEntry(entries, CommandEntry(time, added + 1), max_entries,
                           time_window, time)
    /\ added' = added + 1
    /\ steps' = Append(steps, "append")
    /\ ppc' = NextStage("append")
    /\ UNCHANGED << program, calls, captures, handed, result, uiVars >>
    /\ UNCHANGED execVars
    /\ UNCHANGED << max_entries, time_window, system_state, read, time, ticks >>
    /\ UNCHANGED persistVars
    /\ UNCHANGED pluginVars
    /\ UNCHANGED recent

\* lines 196-203: save_to_disk writes the context out, or fails and returns
\* False, which is dropped; the result string is made
AppSave ==
    /\ RunsProcessCommand
    /\ ppc = "save"
    /\ \E opened \in BOOLEAN :
          LET ok == SaveToDiskResult(system_state, user_preferences, opened)
          IN  /\ disk' = SaveToDiskFile(disk, entries, system_state,
                                        user_preferences, time, opened)
              /\ io' = IO("save", ok, io)
              /\ saved' = IF ok
                          THEN Saved(Store(entries, system_state,
                                           user_preferences))
                          ELSE IF opened THEN NotSaved ELSE saved
    /\ steps' = Append(steps, "save")
    /\ result' = IF returned THEN "Command executed" ELSE "Command failed"
    /\ ppc' = NextStage("save")
    /\ UNCHANGED << program, calls, captures, handed, uiVars >>
    /\ UNCHANGED execVars
    /\ UNCHANGED << max_entries, time_window, entries, before, added,
                    system_state, read, time, ticks, user_preferences >>
    /\ UNCHANGED pluginVars
    /\ UNCHANGED recent

\* process_command returns its string
AppReturn ==
    /\ RunsProcessCommand
    /\ ppc = "done"
    /\ ppc' = "idle"
    /\ UNCHANGED << program, calls, captures, handed, result, steps, uiVars >>
    /\ UNCHANGED execVars
    /\ UNCHANGED ctxVars
    /\ UNCHANGED pluginVars

AppStep ==
    \/ AppSubmit
    \/ AppCapture
    \/ AppGetContext
    \/ AppGenerate
    \/ AppExecute
    \/ AppAddCommand
    \/ AppSave
    \/ AppReturn

(***************************************************************************)
(* The alpha script's main loop (lines 191-221).  capture_screenshot       *)
(* returns a non-empty base64 string or raises, and nothing catches it, so *)
(* the two "Failed to capture" branches are never taken.                   *)
(* execute_command_response keeps no state and its return value is         *)
(* dropped.                                                                *)
(***************************************************************************)
\* lines 192-195: a prompt is entered
AlphaAsk ==
    /\ program = "alpha"
    /\ ppc = "idle"
    /\ BeginRequest
    /\ ppc' = "capture"
    /\ UNCHANGED << program, uiVars >>
    /\ UNCHANGED execVars
    /\ UNCHANGED ctxVars
    /\ UNCHANGED pluginVars

\* lines 193-195: the dialog is cancelled or "exit" is entered
AlphaExit ==
    /\ program = "alpha"
    /\ ppc = "idle"
    /\ ppc' = "exited"
    /\ UNCHANGED << program, calls, captures, handed, result, steps, uiVars >>
    /\ UNCHANGED execVars
    /\ UNCHANGED ctxVars
    /\ UNCHANGED pluginVars

\* lines 197 and 204: capture_screenshot
AlphaCapture ==
    /\ program = "alpha"
    /\ ppc \in {"capture", "recapture"}
    /\ captures' = captures + 1
    /\ \/ ppc' = (IF ppc = "capture" THEN "generate" ELSE "regenerate")
       \/ ppc' = "crashed"
    /\ UNCHANGED << program, calls, handed, result, steps, uiVars >>
    /\ UNCHANGED execVars
    /\ UNCHANGED ctxVars
    /\ UNCHANGED pluginVars

\* line 199: the first call, retry=False
AlphaGenerate ==
    /\ program = "alpha"
    /\ ppc = "generate"
    /\ \E c \in AnalyzeResults(FALSE) : calls' = Append(calls, c)
    /\ ppc' = "answered"
    /\ UNCHANGED << program, captures, handed, result, steps, uiVars >>
    /\ UNCHANGED execVars
    /\ UNCHANGED ctxVars
    /\ UNCHANGED pluginVars

\* lines 201-203: the sentinel; sleep, then capture again
AlphaRetry ==
    /\ program = "alpha"
    /\ ppc = "answered"
    /\ StartsWithSentinel(calls[1].response)
    /\ ppc' = "recapture"
    /\ UNCHANGED << program, calls, captures, handed, result, steps, uiVars >>
    /\ UNCHANGED execVars
    /\ UNCHANGED ctxVars
    /\ UNCHANGED pluginVars

\* lines 215-217: execute_command_response(command_response, user_prompt)
AlphaExecute ==
    /\ program = "alpha"
    /\ ppc = "answered"
    /\ ~StartsWithSentinel(calls[1].response)
    /\ ~StartsWithAnError(calls[1].response)
    /\ handed' = Append(handed, [response |-> calls[1].response,
                                 retry |-> FALSE])
    /\ result' = "Executing command"
    /\ ppc' = "idle"
    /\ UNCHANGED << program, calls, captures, steps, uiVars >>
    /\ UNCHANGED execVars
    /\ UNCHANGED ctxVars
    /\ UNCHANGED pluginVars

\* lines 218-219: "Command generation failed"
AlphaGiveUp ==
    /\ program = "alpha"
    /\ ppc = "answered"
    /\ ~StartsWithSentinel(calls[1].response)
    /\ StartsWithAnError(calls[1].response)
    /\ result' = "Command generation failed"
    /\ ppc' = "idle"
    /\ UNCHANGED << program, calls, captures, handed, steps, uiVars >>
    /\ UNCHANGED execVars
    /\ UNCHANGED ctxVars
    /\ UNCHANGED pluginVars

\* line 206: the second call, retry=True
AlphaGenerateRetry ==
    /\ program = "alpha"
    /\ ppc = "regenerate"
    /\ \E c \in AnalyzeResults(TRUE) : calls' = Append(calls, c)
    /\ ppc' = "reanswered"
    /\ UNCHANGED << program, captures, handed, result, steps, uiVars >>
    /\ UNCHANGED execVars
    /\ UNCHANGED ctxVars
    /\ UNCHANGED pluginVars

\* lines 208-210: execute_command_response(command_response, user_prompt, True)
AlphaExecuteRetry ==
    /\ program = "alpha"
    /\ ppc = "reanswered"
    /\ ~StartsWithPrint(calls[2].response)
    /\ handed' = Append(handed, [response |-> calls[2].response,
                                 retry |-> TRUE])
    /\ result' = "Executing command after retry"
    /\ ppc' = "idle"
    /\ UNCHANGED << program, calls, captures, steps, uiVars >>
    /\ UNCHANGED execVars
    /\ UNCHANGED ctxVars
    /\ UNCHANGED pluginVars

\* lines 211-212: "Command generation failed"
AlphaGiveUpRetry ==
    /\ program = "alpha"
    /\ ppc = "reanswered"
    /\ StartsWithPrint(calls[2].response)
    /\ result' = "Command generation failed"
    /\ ppc' = "idle"
    /\ UNCHANGED << program, calls, captures, handed, steps, uiVars >>
    /\ UNCHANGED execVars
    /\ UNCHANGED ctxVars
    /\ UNCHANGED pluginVars

AlphaStep ==
    \/ AlphaAsk
    \/ AlphaExit
    \/ AlphaCapture
    \/ AlphaGenerate
    \/ AlphaRetry
    \/ AlphaExecute
    \/ AlphaGiveUp
    \/ AlphaGenerateRetry
    \/ AlphaExecuteRetry
    \/ AlphaGiveUpRetry

(***************************************************************************)
(* ui/main_window.py.  MainWindow on its own starts a CommandWorker thread *)
(* for each input; Application.run (main.py, line 141) puts                *)
(* process_command in the place of MainWindow._process_command, so that    *)
(* _on_send calls it in the UI thread and no worker is made.               *)
(***************************************************************************)
\* _on_send, line 192: _set_input_enabled(False) (the variant: the input is
\* left enabled)
InputWhileProcessingMutant == TRUE
InputWhileProcessing == FALSE

\* _on_send on an input that is not empty.  clicked and returnPressed are
\* emitted by enabled widgets only, and by the UI thread, which in run is
\* busy until process_command has returned.
OnSend ==
    /\ program \in {"mainwindow", "run"}
    /\ input_enabled
    /\ ppc = "idle"
    /\ sent < MaxSends
    /\ sent' = sent + 1
    /\ input_enabled' = InputWhileProcessing
    /\ IF program = "run"
       THEN /\ BeginRequest
            /\ ppc' = "capture"
            /\ ExecReset
            /\ UNCHANGED workers
       ELSE /\ workers' = Append(workers, "running")
            /\ UNCHANGED << ppc, calls, captures, handed, result, steps >>
            /\ UNCHANGED execVars
    /\ UNCHANGED program
    /\ UNCHANGED ctxVars
    /\ UNCHANGED pluginVars

\* CommandWorker.run: the callback returns or raises, finished is emitted
WorkerRun ==
    /\ program = "mainwindow"
    /\ \E i \in 1..Len(workers) :
          /\ workers[i] = "running"
          /\ workers' = [workers EXCEPT ![i] = "emitted"]
    /\ UNCHANGED << program, ppc, calls, captures, handed, result, steps,
                    input_enabled, sent >>
    /\ UNCHANGED execVars
    /\ UNCHANGED ctxVars
    /\ UNCHANGED pluginVars

\* _on_command_finished: the UI thread takes a worker's finished signal
OnCommandFinished ==
    /\ program = "mainwindow"
    /\ \E i \in 1..Len(workers) :
          /\ workers[i] = "emitted"
          /\ workers' = SubSeq(workers, 1, i - 1)
                            \o SubSeq(workers, i + 1, Len(workers))
    /\ input_enabled' = TRUE
    /\ UNCHANGED << program, ppc, calls, captures, handed, result, steps,
                    sent >>
    /\ UNCHANGED execVars
    /\ UNCHANGED ctxVars
    /\ UNCHANGED pluginVars

UIStep ==
    \/ OnSend
    \/ WorkerRun
    \/ OnCommandFinished

(***************************************************************************)
(* The programs of the repository that serve requests: the session is one  *)
(* of them.                                                                *)
(***************************************************************************)
PipelineInit ==
    /\ ExecInit
    /\ CtxIdle
    /\ PluginsIdle
    /\ \E p \in {"app", "alpha", "mainwindow", "run"} : PipeInit(p)

PipelineNext == AppStep \/ ExecutorStep \/ AlphaStep \/ UIStep

SpecPipeline == PipelineInit /\ [][PipelineNext]_vars

\* process_command and execute_command run to their return, a started
\* CommandWorker runs its callback, and the event loop delivers the finished
\* signal it emitted; what the user does is under no obligation
PipelineFairness ==
    /\ WF_vars(AppStep \/ ExecutorStep)
    /\ WF_vars(WorkerRun)
    /\ WF_vars(OnCommandFinished)

SpecPipelineLive ==
    PipelineInit /\ [][PipelineNext]_vars /\ PipelineFairness

(***************************************************************************)
(* The context store used on its own: a ContextWindow of any               *)
(* configuration ("window"), or the system state of a ContextManager       *)
(* ("store").                                                              *)
(***************************************************************************)
ContextInit ==
    /\ ExecInit
    /\ PluginsIdle
    /\ \/ /\ PipeInit("window")
          /\ \E max \in MaxEntriesValues, window \in TimeWindows :
                CtxInit(max, window)
       \/ PipeInit("store") /\ CtxIdle

ContextNext == ContextStep

SpecContext == ContextInit /\ [][ContextNext]_vars

(***************************************************************************)
(* A ContextManager with its file: the store is changed, saved, cleared,   *)
(* constructed again and loaded, all within the same second.               *)
(***************************************************************************)
PersistInit == ExecInit /\ PipeInit("persist") /\ CtxIdle /\ PluginsIdle

PersistNext == PersistStep

SpecPersist == PersistInit /\ [][PersistNext]_vars

(***************************************************************************)
(* The context store with its preferences: read and written over the      *)
(* hours, or saved and loaded.                                             *)
(***************************************************************************)
PrefsInit ==
    \E p \in {"prefs", "persist"} :
        ExecInit /\ PipeInit(p) /\ CtxIdle /\ PluginsIdle

PrefsNext == PrefsStep \/ PersistStep

SpecPrefs == PrefsInit /\ [][PrefsNext]_vars

(***************************************************************************)
(* The conversation history and its readers.                               *)
(***************************************************************************)
HistoryInit == ExecInit /\ PipeInit("history") /\ CtxIdle /\ PluginsIdle

SpecHistory == HistoryInit /\ [][HistoryStep]_vars

(***************************************************************************)
(* The plugin manager over the life of the application.                    *)
(***************************************************************************)
PluginsInit == ExecInit /\ PipeInit("plugins") /\ CtxIdle /\ PluginsIdle

PluginsNext == PluginStep

SpecPlugins == PluginsInit /\ [][PluginsNext]_vars

(***************************************************************************)
(* The execution engine's properties, under Spec.                          *)
(***************************************************************************)
SubCommandAt(i) == command.sub_commands[attempted[i]]

\* the failed sub-commands of this call that are not PRINT_OUTPUT
HaltingFailures ==
    {i \in 1..Len(outcomes) :
        ~outcomes[i] /\ SubCommandAt(i).type # PRINT_OUTPUT}

\* the failed PRINT_OUTPUT sub-commands of this call
PrintFailures ==
    {i \in 1..Len(outcomes) :
        ~outcomes[i] /\ SubCommandAt(i).type = PRINT_OUTPUT}

\* C1: once a sub-command that is not PRINT_OUTPUT has failed, the loop is
\* left: no later sub-command is started, no primitive is invoked for one,
\* and execute_command returns False for the composite, which is FAILED.
C1_FailFast ==
    \A i \in HaltingFailures :
        /\ Len(attempted) = i
        /\ \A j \in 1..Len(invoked) : invoked[j] <= attempted[i]
        /\ epc \notin {"loop", "sub"}
        /\ epc = "returned" => (~returned /\ command.status = FAILED)

\* "A;B;C" where B, not a print, fails: A and B ran, C did not
C1_Witness ==
    /\ epc = "returned"
    /\ Len(command.sub_commands) = 3
    /\ attempted = << 1, 2 >>
    /\ outcomes = << TRUE, FALSE >>
    /\ command.sub_commands[2].type = START_PROCESS
    /\ ~returned

\* C2: a failed PRINT_OUTPUT sub-command does not end the loop: when the
\* loop is left, every sub-command after it was started, up to the first
\* failed sub-command that is not PRINT_OUTPUT; and execute_command returns
\* False for the composite.
C2_FailSoft ==
    \A i \in PrintFailures :
        /\ epc \in {"finish", "returned"} =>
              \A j \in (attempted[i] + 1)..Len(command.sub_commands) :
                 \/ \E k \in 1..Len(attempted) : attempted[k] = j
                 \/ \E k \in HaltingFailures : attempted[k] < j
        /\ epc = "returned" => (~returned /\ command.status = FAILED)

\* "A;print(fail);C": C still runs, and the composite fails
C2_Witness ==
    /\ epc = "returned"
    /\ Len(command.sub_commands) = 3
    /\ command.sub_commands[2].type = PRINT_OUTPUT
    /\ attempted = << 1, 2, 3 >>
    /\ outcomes = << TRUE, FALSE, TRUE >>
    /\ ~returned

\* C3: execute_command on a composite it runs (one that is not already
\* FAILED, which is returned False at once) returns True exactly when every
\* sub-command it started succeeded.
C3_ResultIsConjunction ==
    (epc = "returned" /\ command.type = COMPOSITE /\ ~SkipsExecution(entry)) =>
        /\ Len(outcomes) = Len(attempted)
        /\ returned = (\A i \in 1..Len(outcomes) : outcomes[i])

\* a failed print followed by a success: the print's failure still counts
C3_Witness ==
    /\ epc = "returned"
    /\ command.type = COMPOSITE
    /\ ~SkipsExecution(entry)
    /\ Len(outcomes) >= 2
    /\ PrintFailures # {}
    /\ outcomes[Len(outcomes)]
    /\ ~returned

\* C4: the sub-commands started are at every moment 1, 2, ..., k of the
\* list, each once, and a sub-command is started only when every earlier
\* one has returned.
C4_InOrder ==
    /\ \A i \in 1..Len(attempted) : attempted[i] = i
    /\ attempted # << >> => Len(attempted) <= Len(command.sub_commands)
    /\ Len(outcomes) = IF epc = "sub" THEN Len(attempted) - 1
                       ELSE Len(attempted)

C4_Witness ==
    /\ epc = "sub"
    /\ attempted = << 1, 2, 3 >>
    /\ Len(outcomes) = 2

\* C5: when a primitive raised or a process exited non-zero during
\* execute_command, the call returns False and the top-level command is
\* FAILED with an error message.
C5_FaultsContained ==
    (epc = "returned" /\ faulted) =>
        /\ ~returned
        /\ command.status = FAILED
        /\ command.error_message # None

C5_Witness ==
    /\ epc = "returned"
    /\ faulted
    /\ command.type = START_PROCESS
    /\ ~returned

\* C6: execute_command on a command that is FAILED returns False, invokes
\* no primitive, starts no sub-command and leaves the command as it was.
C6_FailedIsSkipped ==
    (epc = "returned" /\ entry.status = FAILED) =>
        /\ ~returned
        /\ invoked = << >>
        /\ attempted = << >>
        /\ command = entry

\* a composite that failed is executed again
C6_Witness ==
    /\ epc = "returned"
    /\ entry.status = FAILED
    /\ entry.type = COMPOSITE
    /\ entry.sub_commands # << >>
    /\ runs = 2

(***************************************************************************)
(* The retry protocol's properties, under SpecPipeline.                    *)
(***************************************************************************)
\* the request is over and the collaborator was called for it
RequestOver == ppc = "idle" /\ calls # << >>

\* the text begins with "An error occurred, retrying..."
BeginsWithSentinelText(r) ==
    r.type # "FUNCTION_CALL" /\ r.raw_text[1] \in {SENTINEL, "sentinelMore"}

\* C7: when the first call of a request (retry=False) returned the
\* sentinel, that response is not given to the parse/execute path, the
\* screen is captured a second time and the collaborator is called a second
\* time, with retry=True.
C7_RetryAfterSentinel ==
    (RequestOver /\ ~calls[1].retry /\ IsSentinel(calls[1].response)) =>
        /\ \A i \in 1..Len(handed) : handed[i].retry
        /\ captures = 2
        /\ Len(calls) = 2
        /\ calls[2].retry

\* C8: a request calls the collaborator at most twice; a call with
\* retry=True is the second call and follows a call with retry=False whose
\* response began with the sentinel; once the second call has returned, the
\* one step left ends the request.
C8_CallsBounded ==
    /\ Len(calls) <= 2
    /\ \A i \in 1..Len(calls) :
          calls[i].retry =>
             /\ i = 2
             /\ ~calls[1].retry
             /\ BeginsWithSentinelText(calls[1].response)
    /\ Len(calls) = 2 => ppc \in {"reanswered", "idle", "exited"}

C9_SentinelNeverHanded ==
    \A i \in 1..Len(handed) : ~IsSentinel(handed[i].response)

(***************************************************************************)
(* Under Spec: what the collaborator delivers when it fails on the retry   *)
(* attempt is print('An error occurred') (the alpha script) or the ERROR   *)
(* response (GeminiClient.generate_command).                               *)
(***************************************************************************)
\* C10: the response that reports a failed retry is parsed as PRINT_OUTPUT
\* and executed to COMPLETED.
C10_RetryFailureIsPrinted ==
    (epc # "idle" /\ response \in {AnalyzeFailure(TRUE), ErrorResponse}) =>
        /\ command.type = PRINT_OUTPUT
        /\ epc = "returned" => (returned /\ command.status = COMPLETED)

(***************************************************************************)
(* The parser, under Spec: in the state the executor is entered for the    *)
(* first time, command is what parse made of response.                     *)
(***************************************************************************)
Parsed == program = "library" /\ epc = "call" /\ runs = 1
ParsedText == Parsed /\ response.type # "FUNCTION_CALL"
ParsedCalls == Parsed /\ response.type = "FUNCTION_CALL"

\* the six grammar forms and the kind of each
GrammarForm == {"moveTo", "click", "typewrite", "hotkey", "start", "print"}
KindOfForm(frag) ==
    CASE frag = "moveTo" -> MOUSE_MOVE
      [] frag = "click" -> MOUSE_CLICK
      [] frag = "typewrite" -> KEYBOARD_TYPE
      [] frag = "hotkey" -> KEYBOARD_HOTKEY
      [] frag = "start" -> START_PROCESS
      [] frag = "print" -> PRINT_OUTPUT

\* the five-name table
KindOfName(name) ==
    CASE name = "start_application" -> START_PROCESS
      [] name = "execute_mouse_movement" -> MOUSE_MOVE
      [] name = "execute_keyboard_input" -> KEYBOARD_TYPE
      [] name = "execute_hotkey" -> KEYBOARD_HOTKEY
      [] name = "print_output" -> PRINT_OUTPUT
Recognised(call) == call.name # "other"

IsNonEmptyFragment(frag) == frag # EMPTY
NonEmptyFragments(text) == SelectSeq(text, IsNonEmptyFragment)
RecognisedCalls(fcalls) == SelectSeq(fcalls, Recognised)

IsUnknownWithError(c) == c.type = UNKNOWN /\ c.error_message # None

\* C11: an input from which no command can be produced (no fragment matches
\* a grammar form; no call has a recognised name and usable arguments),
\* whether it has one fragment/call or several, is parsed to an Unknown
\* command carrying an error.
C11_UnparsableIsUnknown ==
    /\ ParsedText =>
          ((\A i \in 1..Len(response.raw_text) :
                response.raw_text[i] \notin GrammarForm)
              => IsUnknownWithError(command))
    /\ ParsedCalls =>
          ((\A i \in 1..Len(response.function_calls) :
                \/ ~Recognised(response.function_calls[i])
                \/ response.function_calls[i].args = "invalid")
              => IsUnknownWithError(command))

\* C12: text with more than one fragment is parsed to a Composite whose
\* children are, one for one and in order, the results of the non-empty
\* fragments: the command of the form the fragment matches, or an Unknown
\* child carrying an error when it matches none.
C12_ChildPerFragment ==
    LET frags == NonEmptyFragments(response.raw_text)
    IN  (ParsedText /\ Len(frags) > 1) =>
           /\ command.type = COMPOSITE
           /\ Len(command.sub_commands) = Len(frags)
           /\ \A i \in 1..Len(frags) :
                 IF frags[i] \in GrammarForm
                 THEN command.sub_commands[i].type = KindOfForm(frags[i])
                 ELSE IsUnknownWithError(command.sub_commands[i])

\* C13: text with exactly one non-empty fragment, which matches a grammar
\* form, is parsed to that single command, not to a Composite, wherever the
\* ';' separators stand.
C13_SingleFragmentDirect ==
    LET frags == NonEmptyFragments(response.raw_text)
    IN  (ParsedText /\ Len(frags) = 1 /\ frags[1] \in GrammarForm) =>
           command.type = KindOfForm(frags[1])

\* C14: the sentinel is parsed to an Unknown command with status Failed and
\* no children, and only the sentinel is: no other text gets the Failed
\* Unknown of the short-circuit.
C14_ShortCircuitSentinelOnly ==
    ParsedText =>
        ((/\ command.type = UNKNOWN
          /\ command.status = FAILED
          /\ command.sub_commands = << >>)
            <=> response.raw_text = << SENTINEL >>)

\* C15: a function-call response with zero calls is parsed to an Unknown
\* command with status Failed whose error says no function calls were found.
C15_ZeroCallsFailed ==
    (ParsedCalls /\ response.function_calls = << >>) =>
        /\ command.type = UNKNOWN
        /\ command.status = FAILED
        /\ command.error_message = "No function calls found in response"

\* C16: one call with a recognised name is parsed to the command of the
\* table's kind; one call with an unrecognised name to Unknown/Failed;
\* several calls to a Composite whose children are the commands of the
\* recognised calls in list order.  (Stated for calls whose arguments are of
\* the types the table gives.)
C16_FunctionCallTable ==
    LET fcalls == response.function_calls
        known == RecognisedCalls(fcalls)
        WellTyped == \A i \in 1..Len(fcalls) : fcalls[i].args # "invalid"
    IN  WellTyped =>
        /\ (ParsedCalls /\ Len(fcalls) = 1 /\ Recognised(fcalls[1])) =>
              command.type = KindOfName(fcalls[1].name)
        /\ (ParsedCalls /\ Len(fcalls) = 1 /\ ~Recognised(fcalls[1])) =>
              command.type = UNKNOWN /\ command.status = FAILED
        /\ (ParsedCalls /\ Len(fcalls) > 1) =>
              /\ command.type = COMPOSITE
              /\ Len(command.sub_commands) = Len(known)
              /\ \A i \in 1..Len(known) :
                    command.sub_commands[i].type = KindOfName(known[i].name)

(***************************************************************************)
(* The context store's properties, under SpecContext.                      *)
(***************************************************************************)
\* the last n elements of es, none when n is 0 or less
LastN(es, n) ==
    IF n <= 0 THEN << >>
    ELSE IF n >= Len(es) THEN es
    ELSE SubSeq(es, Len(es) - n + 1, Len(es))

\* C17: after every add_entry, whatever max_entries >= 0 is configured, the
\* history holds at most max_entries entries, and they are the most recently
\* added ones, oldest first: the entry just added, or one of the last
\* max_entries - 1 that were there before it.
C17_WindowBounded ==
    (program = "window" /\ added > 0) =>
        LET kept == LastN(before, max_entries - 1)
        IN  /\ Len(entries) <= max_entries
            /\ \A i \in 1..Len(entries) :
                  \/ entries[i].seq = added
                  \/ \E j \in 1..Len(kept) : kept[j] = entries[i]
            /\ \A i, j \in 1..Len(entries) :
                  i < j => entries[i].seq < entries[j].seq

\* C18: an add_entry step leaves no entry with a timestamp older than the
\* current time minus time_window; and the count is pruned first: of the
\* entries there before the call, the ones kept are the recent ones among
\* the last max_entries - 1, the place of an older entry is not given to one
\* the count had dropped.  (With max_entries = 0 the count step drops
\* nothing, in either order.)
C18_CountThenAge ==
    [][added' # added =>
          /\ \A i \in 1..Len(entries') :
                entries'[i].timestamp >= time' - time_window
          /\ max_entries >= 1 =>
                LET WasThere(e) == e.seq <= added
                    Recent(e) == e.timestamp >= time' - time_window
                IN  SelectSeq(entries', WasThere)
                        = SelectSeq(LastN(entries, max_entries - 1), Recent)
      ]_vars

\* an entry the age pruning would have kept was dropped by the count, and
\* the age pruning then removed another one
C18_Witness ==
    /\ program = "window"
    /\ max_entries = 2
    /\ Len(before) = 2
    /\ Len(entries) = 1
    /\ entries[1].seq = added
    /\ entries[1].timestamp = time
    /\ before[1].timestamp >= time - time_window
    /\ before[2].timestamp < time - time_window

\* C19: no read of the system state (get_system_state, or
\* get_all_system_state with either value of include_expired) returns a value
\* older than the TTL.
IsRead(operation) == operation.op \in {"get", "get_all"}
ReturnsNoExpired(operation) ==
    \A k \in DOMAIN operation.result :
        operation.at - operation.result[k].updated_at <= STATE_TTL
C19_NoExpiredRead == IsRead(read) => ReturnsNoExpired(read)

\* C19, amended: get_system_state, and get_all_system_state with
\* include_expired false, return no value older than the TTL.
C19_NoExpiredReadUnlessAsked ==
    (IsRead(read) /\ ~read.include_expired) => ReturnsNoExpired(read)

\* get_all_system_state(False) ran on a store holding an expired entry
C19_Witness ==
    /\ read.op = "get_all"
    /\ ~read.include_expired
    /\ time = read.at
    /\ \E k \in DOMAIN system_state :
          read.at - system_state[k].updated_at > STATE_TTL

\* C20: get_system_state(k) on an entry older than the TTL returns None and
\* leaves the store without k; from then on, until update_system_state(k)
\* writes it again, k stays out of the store and out of what
\* get_all_system_state returns.
FoundExpired(operation) ==
    /\ operation.op = "get"
    /\ operation.found # NoState
    /\ operation.at - operation.found[operation.key].updated_at > STATE_TTL
C20_ExpiredGetRemoves ==
    /\ [](FoundExpired(read) =>
             /\ read.result = NoState
             /\ read.key \notin DOMAIN system_state)
    /\ [][\A k \in Keys :
             (k \notin DOMAIN system_state
                 /\ ~(read'.op = "update" /\ read'.key = k))
             => /\ k \notin DOMAIN system_state'
                /\ k \notin DOMAIN read'.result
         ]_vars

\* get_system_state(k) ran on an entry older than the TTL, while the other
\* key was still fresh
C20_Witness ==
    /\ FoundExpired(read)
    /\ time = read.at
    /\ \E k \in DOMAIN system_state : time - system_state[k].updated_at = 1

(***************************************************************************)
(* The command lifecycle, under Spec.                                      *)
(***************************************************************************)
\* execute_command has been entered on the command at hand, and the command
\* was c when it was
Entered == epc \in {"single", "loop", "sub", "finish", "returned"}
Terminal == {COMPLETED, FAILED, CANCELED}

\* C26: a command that is Completed, Failed or Canceled when execute_command
\* is called on it has its status left as it is, and is at no moment Pending
\* or Executing again.
C26_TerminalStays ==
    (Entered /\ entry.status \in Terminal) =>
        /\ command.status = entry.status
        /\ command.status \notin {PENDING, EXECUTING}

\* C27: executed_at and completed_at are assigned once: a command that
\* enters execute_command with one of them set has it unchanged at every
\* moment of the call, whatever transitions the call makes.
C27_TimestampsSetOnce ==
    Entered =>
        /\ entry.executed_at # NoTime =>
              command.executed_at = entry.executed_at
        /\ entry.completed_at # NoTime =>
              command.completed_at = entry.completed_at

\* a Completed command was executed again and completed again, later
C27_Witness ==
    /\ epc = "returned"
    /\ runs = 2
    /\ entry.status = COMPLETED
    /\ entry.completed_at # NoTime
    /\ command.status = COMPLETED
    /\ clock > entry.completed_at + 2

\* C28: a command that execute_command leaves Failed, and that was not
\* Failed before, has its completed timestamp set and carries the message of
\* the failure (stated for the commands the parser recognised).
C28_FailedIsStamped ==
    (epc = "returned" /\ command.status = FAILED /\ entry.status # FAILED
        /\ entry.type # UNKNOWN) =>
        /\ command.completed_at # NoTime
        /\ command.error_message # None

\* C29: from the moment the parser returns it, a command that carries an
\* error message is Failed.
C29_ErrorOnlyWhenFailed ==
    (epc # "idle" /\ command.error_message # None) => command.status = FAILED

\* C30: when execute_command returns from a Composite it ran, each child it
\* attempted is Completed if its sub_success was true and Failed if not, and
\* each child it did not attempt is Pending.
C30_ChildrenFollowLifecycle ==
    (epc = "returned" /\ command.type = COMPOSITE /\ ~SkipsExecution(entry)) =>
        \A i \in 1..Len(command.sub_commands) :
            LET runsOf == {j \in 1..Len(attempted) : attempted[j] = i}
            IN  IF runsOf = {}
                THEN command.sub_commands[i].status = PENDING
                ELSE \A j \in runsOf :
                        command.sub_commands[i].status
                            = IF outcomes[j] THEN COMPLETED ELSE FAILED

(***************************************************************************)
(* process_command's stages and the main window, under SpecPipeline.       *)
(***************************************************************************)
Stages == << "capture", "context", "generate", "execute", "append", "save" >>
ErrorResult == "Error processing command"
\* process_command is about to return, and not from its except block
Succeeded == RunsProcessCommand /\ ppc = "done" /\ result # ErrorResult

\* C23: process_command calls its stages in this order, each at most once:
\* capture screenshot, read the context, call the collaborator, parse and
\* execute, append to the history, save; a request that succeeds has called
\* all six, each once (one capture, one collaborator call, one response
\* handed to one execute_command call, the new entry last in the history,
\* one save).
C23_StagesInOrder ==
    RunsProcessCommand =>
        /\ \E n \in 0..Len(Stages) : steps = SubSeq(Stages, 1, n)
        /\ Succeeded =>
              /\ steps = Stages
              /\ captures = 1
              /\ Len(calls) = 1
              /\ Len(handed) = 1
              /\ runs = 1
              /\ entries # << >>
              /\ entries[Len(entries)].seq = added
              /\ io.op = "save"

\* the second request of a session got through its six stages, and its
\* command failed
C23_Witness ==
    /\ Succeeded
    /\ steps = Stages
    /\ added = 2
    /\ result = "Command failed"

\* C24: process_command never raises: whatever stage faults, the request
\* ends with a result string; and the history is written by the append
\* stage only, so that a request that faults before it leaves the history
\* as it was.
C24_NeverRaises ==
    /\ [](RunsProcessCommand =>
             /\ ppc \in {"idle", "capture", "context", "generate", "execute",
                         "executing", "save", "done"}
             /\ ppc = "done" =>
                   result \in {"Command executed", "Command failed",
                               ErrorResult}
             /\ result = ErrorResult =>
                   \A i \in 1..Len(steps) : steps[i] # "append")
    /\ [][(RunsProcessCommand
              /\ \A i \in 1..Len(steps') : steps'[i] # "append")
            => entries' = entries]_vars

\* after a request whose save failed, a request ends in the except block
\* and the history still holds the first request's entry
C24_Witness ==
    /\ RunsProcessCommand
    /\ ppc = "done"
    /\ result = ErrorResult
    /\ steps = << "capture" >>
    /\ Len(entries) = 1
    /\ io.op = "save"
    /\ ~io.ok

\* C25: the main window has at most one task in flight (a worker thread
\* that has not reported, or a process_command call), and while there is
\* one the input is disabled.
C25_OneTaskInFlight ==
    program \in {"mainwindow", "run"} =>
        LET inflight == Len(workers) + (IF ppc # "idle" THEN 1 ELSE 0)
        IN  /\ inflight <= 1
            /\ inflight = 1 => ~input_enabled

\* the second input's worker has emitted finished, which the UI thread has
\* not taken yet
C25_Witness ==
    /\ program = "mainwindow"
    /\ sent = 2
    /\ workers = << "emitted" >>
    /\ ~input_enabled

(***************************************************************************)
(* The context file's properties, under SpecPersist.                       *)
(***************************************************************************)
\* the step is a load_from_disk call
IsLoadStep == io'.bit # io.bit /\ io'.op = "load"
\* a store as ContextManager() makes it
IsFresh ==
    entries = << >> /\ system_state = NoState /\ user_preferences = NoState
\* what get_all_system_state() lists of a system_state when called at t
NotExpiredAt(state, t) ==
    [k \in {j \in DOMAIN state : t - state[j].updated_at <= STATE_TTL}
        |-> state[k]]
\* the load gives the store that was saved back
LoadedIsSaved ==
    /\ entries' = saved.store.entries
    /\ \A t \in Times :
          NotExpiredAt(system_state', t)
              = NotExpiredAt(saved.store.system_state, t)
    /\ user_preferences' = saved.store.user_preferences

\* C21: a load_from_disk into a fresh store, of the file a save_to_disk
\* wrote, gives the saving store's conversation history (the same entries in
\* the same order), its system_state as far as it is not expired, whenever
\* it is read, and its user_preferences, whatever state the saving store was
\* in.
C21_RoundTrip ==
    [][(IsLoadStep /\ saved.valid /\ IsFresh) => LoadedIsSaved]_vars

\* C22: a load_from_disk that finds no file, a file that is not JSON, or a
\* file whose history has a malformed entry returns False and leaves the
\* conversation history, system_state and user_preferences as they were.
FailingFiles ==
    {f \in ForeignFiles :
        \/ f.kind \in {"missing", "unparseable", "array"}
        \/ /\ f.kind = "object"
           /\ "conversation_history" \in DOMAIN f.data
           /\ \E i \in 1..Len(f.data["conversation_history"]) :
                 f.data["conversation_history"][i].fields # EntryFields}
C22_FailedLoadChangesNothing ==
    /\ [][(IsLoadStep /\ (disk \in FailingFiles \/ ~io'.ok)) =>
             /\ ~io'.ok
             /\ UNCHANGED << entries, system_state, user_preferences >>
         ]_vars

\* a store with a history entry, a system_state entry and a preference has
\* tried to load the file whose history has a malformed entry
C22_Witness ==
    /\ io.op = "load"
    /\ ~io.ok
    /\ disk.kind = "object"
    /\ disk \in FailingFiles
    /\ entries # << >>
    /\ system_state # NoState
    /\ user_preferences # NoState

(***************************************************************************)
(* Bulk reads of system_state, under SpecContext.                          *)
(***************************************************************************)
\* C31: after get_all_system_state(include_expired=False) has returned, no
\* key whose age exceeded the TTL at the time of the call is still stored.
C31_GetAllEvicts ==
    (read.op = "get_all" /\ ~read.include_expired) =>
        \A k \in DOMAIN system_state : ~IsExpired(system_state[k], read.at)

(***************************************************************************)
(* user_preferences, under SpecPrefs.                                      *)
(***************************************************************************)
\* C32: add_command, update_system_state, get_system_state,
\* get_all_system_state, get_user_preference, save_to_disk and the passing
\* of time leave every preference key and value as it was, and
\* get_user_preference returns the value that is set whatever its age.  The
\* steps are told by what they write: the clock, the count of entries
\* added, the record of the last read or update, the record of the last
\* save.
IsOperationStep ==
    /\ read'.op # None
    /\ << read'.op, read'.key, read'.include_expired, read'.at >>
           # << read.op, read.key, read.include_expired, read.at >>
C32_OnlySetChangesPreferences ==
    /\ []((read.op = "get_preference" /\ read.key \in DOMAIN read.found) =>
             read.result[read.key] = read.found[read.key])
    /\ [][(\/ time' # time
           \/ added' # added
           \/ IsOperationStep
           \/ (io'.bit # io.bit /\ io'.op = "save"))
          => UNCHANGED user_preferences]_vars

\* a preference was read more than an hour after the store was made, after
\* a system_state key had been written, and is still set
C32_Witness ==
    /\ program = "prefs"
    /\ read.op = "get_preference"
    /\ read.at > STATE_TTL
    /\ read.key \in DOMAIN user_preferences
    /\ read.result[read.key] = user_preferences[read.key]
    /\ system_state # NoState
    /\ \A k \in DOMAIN system_state : IsExpired(system_state[k], time)

(***************************************************************************)
(* The plugin manager's properties, under SpecPlugins.                     *)
(***************************************************************************)
\* the dependencies among the discovered plugins, and what they reach
DiscoveredEdges == {e \in graph : e[2] \in Range(plugin_classes)}
Compose(r, q) ==
    {<< a, c >> \in PluginIds \X PluginIds :
        \E b \in PluginIds : << a, b >> \in r /\ << b, c >> \in q}
RECURSIVE Closure(_, _)
Closure(r, k) == IF k = 0 THEN r ELSE Closure(r \cup Compose(r, r), k - 1)
Acyclic ==
    \A p \in PluginIds : << p, p >> \notin Closure(DiscoveredEdges, MaxPlugins)
PositionIn(seq, x) == CHOOSE k \in 1..Len(seq) : seq[k] = x
Sorted == mpc \in {"initializing", "active", "shutting", "down"}

\* C33: initialize_plugins visits every discovered plugin exactly once, in
\* the order _sort_plugins_by_dependencies lists them, which lists every
\* discovered plugin exactly once whether or not the dependencies have a
\* cycle; when they have none, a plugin is visited after every discovered
\* plugin it depends on.
C33_DependenciesFirst ==
    Sorted =>
        /\ Len(plugin_order) = Len(plugin_classes)
        /\ Range(plugin_order) = Range(plugin_classes)
        /\ initialized \o (IF mpc = "initializing" THEN todo ELSE << >>)
              = plugin_order
        /\ Acyclic =>
              \A e \in DiscoveredEdges :
                  PositionIn(plugin_order, e[2]) < PositionIn(plugin_order, e[1])

\* three plugins, the first depending on the second and the third, the
\* second on the third, were initialized in the order third, second, first
C33_Witness ==
    /\ mpc = "active"
    /\ graph = {<< "p1", "p2" >>, << "p2", "p3" >>, << "p1", "p3" >>}
    /\ initialized = << "p3", "p2", "p1" >>

\* b lists elements of a, each once, in the order a has them
InOrderOf(a, b) ==
    /\ Range(b) \subseteq Range(a)
    /\ \A i, j \in 1..Len(b) :
          i < j => PositionIn(a, b[i]) < PositionIn(a, b[j])

\* C34: shutdown_plugins calls shutdown() on the active plugins in the
\* reverse of the order they were initialized in, on every one of them even
\* when a shutdown() has raised, and leaves PluginManager.plugins empty.
C34_ShutdownReversed ==
    /\ [](mpc \in {"active", "shutting"} => InOrderOf(initialized, plugins))
    /\ [](mpc = "shutting" => shutdowns \o todo = Reverse(plugins))
    /\ [](mpc = "down" => plugins = << >>)
    /\ [][(mpc' = "down" /\ mpc # "down") => shutdowns = Reverse(plugins)]_vars

\* three plugins were tried, two became active and were shut down, the
\* dependent one first, and a shutdown() raised
C34_Witness ==
    /\ mpc = "down"
    /\ raised
    /\ initialized = << "p3", "p2", "p1" >>
    /\ shutdowns = << "p1", "p3" >>
    /\ plugins = << >>

(***************************************************************************)
(* The session goes on, under SpecPipelineLive.                            *)
(***************************************************************************)
\* C35: in the window wired to Application.process_command, an input that
\* was sent, and with it the disabled input field and send button, leads to
\* the input being enabled again.
C35_InputEnabledAgain ==
    (program = "run" /\ sent > 0 /\ ~input_enabled) ~> input_enabled

(***************************************************************************)
(* What execute_command returns, under Spec.                               *)
(***************************************************************************)
\* C36: when execute_command has returned, the command is Completed or
\* Failed, and the flag returned is true exactly when it is Completed.
C36_FlagAgreesWithStatus ==
    epc = "returned" =>
        /\ command.status \in {COMPLETED, FAILED}
        /\ returned <=> command.status = COMPLETED
        /\ ~returned <=> command.status = FAILED

\* a composite that was Pending ran its first sub-command, failed on the
\* second, and was returned false and Failed
C36_Witness ==
    /\ epc = "returned"
    /\ entry.status = PENDING
    /\ command.type = COMPOSITE
    /\ outcomes = << TRUE, FALSE >>
    /\ ~returned
    /\ command.status = FAILED

\* C37: execute_command returns true for a Composite only if one of its
\* sub-commands was attempted; a Composite without sub-commands gives false.
C37_NothingParsedIsNoSuccess ==
    (epc = "returned" /\ command.type = COMPOSITE /\ returned) =>
        attempted # << >>

(***************************************************************************)
(* The history's bound, under SpecPersist.                                 *)
(***************************************************************************)
\* C38: whatever add_command, save_to_disk, load_from_disk and clear have
\* done, the history holds at most max_entries entries.
C38_HistoryBounded == program = "persist" => Len(entries) <= max_entries

(***************************************************************************)
(* Reading the history, under SpecHistory.                                 *)
(***************************************************************************)
\* C39: get_recent_entries(n) returns at most n entries, for every n >= 0
\* (the list returned is the tail of the retained entries, oldest first;
\* when n is omitted it is all of them and no bound is claimed).
C39_AtMostCount ==
    (recent.called /\ ~recent.omitted) => Len(recent.result) <= recent.count

====
